---------------------------- MODULE Spec2Model ----------------------------
(***************************************************************************)
(* A model of include/swift/AST/Module.h: ModuleDecl, its entry-point      *)
(* record, the FileUnit hierarchy and the import graph.                    *)
(*                                                                         *)
(* Assertions are modelled as traps: a failed assert sets `trapped` and    *)
(* the program takes no further step.                                      *)
(***************************************************************************)
EXTENDS Integers, Sequences, FiniteSets, TLC

\* ------------------------------------------------------------------ bounds

\* Calls made directly on one EntryPointInfoTy record.
MaxInfoCalls == 4
\* Import edges in the whole import graph.
MaxImports == 3
\* Declarations parsed into the source files of one module.
MaxDecls == 2
\* Imports declared by the source files of the module looked into.
MaxFileImports == 1
\* Records in a vector handed to removeDuplicateImports.
MaxVector == 3
\* ImportedModuleDesc values constructed.
MaxDescs == 2
\* Operator and precedence-group declarations in all files together.
MaxOperators == 2
\* setDebugClient calls made on one module.
MaxDebugSets == 3
\* registerMainClass / script registrations attempted on one module.
MaxAttempts == 3

\* --------------------------------------------------------- program constants

\* EntryPointInfoTy::Flags
DiagnosedMultipleMainClasses == 1
DiagnosedMainClassWithScript == 2

\* A null pointer (FileUnit *, ClassDecl *).
NULL == "null"

\* The file units of the module whose entry point is registered.
EntryFiles == {"f1", "f2", "f3"}
\* The classes a file may register as its main class.
MainClasses == {"c1", "c2"}
\* SourceFileKind values that matter for the entry point
SourceFileKinds == {"Library", "Main"}

VARIABLES
  \* ModuleDecl::EntryPointInfo: the PointerIntPair `storage`.
  EntryPointInfo,
  \* Set once an assertion has failed.
  trapped,
  \* History of the calls made directly on the record:
  \*   calls[m] = number of calls of mark method m, last = <<method, result>>.
  infoCalls, infoLast,
  \* SourceFile::Kind and SourceFile::MainClass of each file of the module.
  Kind, MainClass,
  \* The diagnostics the module has reported, in order.
  diags,
  \* Number of registrations attempted, and the file of the first successful one.
  attempts, firstRegistered,
  \* The registerEntryPointFile calls made so far: the file, whether it claimed
  \* with a main class, and the conflict the call ran into.
  claims

entryVars == <<EntryPointInfo, trapped, infoCalls, infoLast, Kind, MainClass,
               diags, attempts, firstRegistered, claims>>

VARIABLES
  \* SourceFile::Imports of the source file of each module of the import graph.
  Imports,
  \* One forAllVisibleModules call: where it is ("idle", "running", "done"),
  \* what it was started on, its work stack and visited set, the callback
  \* invocations made so far with what the callback returned, and its result.
  travPC, travStart, stack, visited, calls, travResult

travVars == <<Imports, travPC, travStart, stack, visited, calls, travResult>>

VARIABLES
  \* ModuleDecl::Files of each module, SourceFile::Decls, SourceFile::Imports,
  \* SourceFile::PrivateDiscriminator and SourceFile::ASTStage of each file.
  Files, Decls, fileImports, PrivateDiscriminator, ASTStage,
  \* The last lookup made: the query and what it returned.
  lastQuery

sourceVars == <<Files, Decls, fileImports, PrivateDiscriminator, ASTStage, lastQuery>>

VARIABLES
  \* A caller's vector of imports, whether removeDuplicateImports was the last
  \* thing done to it, and the vector it was applied to then.
  imports, uniqued, uniquedFrom

uniqueVars == <<imports, uniqued, uniquedFrom>>

VARIABLES
  \* The ImportedModuleDesc values constructed so far, and the last
  \* construction attempted: its options and whether it succeeded.
  descs, lastDesc

descVars == <<descs, lastDesc>>

VARIABLES
  \* The last query made on a file unit: the unit, the query, the output
  \* collection before and after, what was returned and whether it trapped.
  unitCall

unitVars == <<unitCall>>

VARIABLES
  \* ModuleDecl::DebugClient and the number of setDebugClient calls made.
  DebugClient, debugSets,
  \* LoadedFile::FilenameForPrivateDecls of one loaded file, and the last call
  \* of addFilenameForPrivateDecl or getFilenameForPrivateDecl on it.
  FilenameForPrivateDecls, filenameCall

attachVars == <<DebugClient, debugSets, FilenameForPrivateDecls, filenameCall>>

VARIABLES
  \* The last call of ModuleDecl::matchesAccessPath.
  matchCall

matchVars == <<matchCall>>

VARIABLES
  \* ModuleDecl::Cache of module M, SourceFile::Cache of each source file,
  \* whether each was cleared since it was last read, and the last call made.
  Cache, FileCache, fresh, cacheCall

cacheVars == <<Cache, FileCache, fresh, cacheCall>>

VARIABLES
  \* The operator and precedence-group declarations in the files' tables and
  \* the last operator lookup made.
  Operators, opCall

opVars == <<Operators, opCall>>

VARIABLES
  \* The last call of SourceFile::hasEntryPoint: the file and what it returned.
  sfCall

sfVars == <<sfCall>>

VARIABLES
  \* Bits.ModuleDecl, the module-wide flags, and the last setter called.
  Bits, bitCall

bitVars == <<Bits, bitCall>>

VARIABLES
  \* The last pair of ImportedModule records compared and hashed.
  keyCall

keyVars == <<keyCall>>

VARIABLES
  \* The file units constructed, each with its class, its Kind, its parent
  \* module and whether it is in the Files of that module; the last constructor call.
  constructed, ctorCall

ctorVars == <<constructed, ctorCall>>

vars == <<entryVars, travVars, sourceVars, uniqueVars, descVars, unitVars, attachVars, matchVars, cacheVars, opVars, sfVars, bitVars, keyVars, ctorVars>>

\* entryVars without `trapped`.
entryData == <<EntryPointInfo, infoCalls, infoLast, Kind, MainClass, diags,
               attempts, firstRegistered, claims>>

\* What the operations on one part of the program leave alone.
notEntry == <<travVars, sourceVars, uniqueVars, descVars, unitVars, attachVars, matchVars, cacheVars, opVars, sfVars, bitVars, keyVars, ctorVars>>
notTrav == <<entryVars, sourceVars, uniqueVars, descVars, unitVars, attachVars, matchVars, cacheVars, opVars, sfVars, bitVars, keyVars, ctorVars>>
notSource == <<entryVars, travVars, uniqueVars, descVars, unitVars, attachVars, matchVars, cacheVars, opVars, sfVars, bitVars, keyVars, ctorVars>>
notUnique == <<entryVars, travVars, sourceVars, descVars, unitVars, attachVars, matchVars, cacheVars, opVars, sfVars, bitVars, keyVars, ctorVars>>
notUnit == <<entryData, travVars, sourceVars, uniqueVars, descVars, attachVars, matchVars, cacheVars, opVars, sfVars, bitVars, keyVars, ctorVars>>
notAttach == <<entryData, travVars, sourceVars, uniqueVars, descVars, unitVars, matchVars, cacheVars, opVars, sfVars, bitVars, keyVars, ctorVars>>
notMatch == <<entryData, travVars, sourceVars, uniqueVars, descVars, unitVars, attachVars, cacheVars, opVars, sfVars, bitVars, keyVars, ctorVars>>
notCache == <<entryData, travVars, sourceVars, uniqueVars, descVars, unitVars, attachVars, matchVars, opVars, sfVars, bitVars, keyVars, ctorVars>>
notOp == <<entryData, travVars, sourceVars, uniqueVars, descVars, unitVars, attachVars, matchVars, cacheVars, sfVars, bitVars, keyVars, ctorVars>>
notSf == <<entryData, travVars, sourceVars, uniqueVars, descVars, unitVars, attachVars, matchVars, cacheVars, opVars, bitVars, keyVars, ctorVars>>
notBits == <<entryData, travVars, sourceVars, uniqueVars, descVars, unitVars, attachVars, matchVars, cacheVars, opVars, sfVars, keyVars, ctorVars>>
notKeys == <<entryData, travVars, sourceVars, uniqueVars, descVars, unitVars, attachVars, matchVars, cacheVars, opVars, sfVars, bitVars, ctorVars>>
notCtor == <<entryData, travVars, sourceVars, uniqueVars, descVars, unitVars, attachVars, matchVars, cacheVars, opVars, sfVars, bitVars, keyVars>>

\* ------------------------------------------------- OptionSet<Flags> on 2 bits

\* OptionSet::contains for a single-bit flag
Contains(bits, flag) == (bits \div flag) % 2 = 1

\* OptionSet operator|, kept to the two bits of the PointerIntPair
BitOr(bits, flag) == IF Contains(bits, flag) THEN bits ELSE (bits + flag) % 4

\* ------------------------------------------------------- EntryPointInfoTy

EmptyEntryPointInfo == [ptr |-> NULL, int |-> 0]

getEntryPointFile(storage) == storage.ptr

\* setEntryPointFile without its assertion.
setEntryPointFileNoAssert(storage) == TRUE

\* The precondition asserted by setEntryPointFile.
setEntryPointFileAssert(storage) == storage.ptr = NULL

\* A setEntryPointFile that writes the whole PointerIntPair.
setEntryPointFileResetsInt(storage, file) == [ptr |-> file, int |-> 0]

setEntryPointFile(storage, file) == [storage EXCEPT !.ptr = file]

EntryPointInfo_hasEntryPoint(storage) == storage.ptr # NULL

\* markDiagnosedMultipleMainClasses that forgets to store the flag.
markMultiNoLatch(storage) ==
  [res |-> ~Contains(storage.int, DiagnosedMultipleMainClasses),
   storage |-> storage]

\* Returns the result and the record after the call.
markDiagnosedMultipleMainClasses(storage) ==
  [res |-> ~Contains(storage.int, DiagnosedMultipleMainClasses),
   storage |-> [storage EXCEPT !.int = BitOr(@, DiagnosedMultipleMainClasses)]]

\* markDiagnosedMainClassWithScript testing and setting the other flag.
markScriptSharedBit(storage) ==
  [res |-> ~Contains(storage.int, DiagnosedMultipleMainClasses),
   storage |-> [storage EXCEPT !.int = BitOr(@, DiagnosedMultipleMainClasses)]]

markDiagnosedMainClassWithScript(storage) ==
  [res |-> ~Contains(storage.int, DiagnosedMainClassWithScript),
   storage |-> [storage EXCEPT !.int = BitOr(@, DiagnosedMainClassWithScript)]]

\* ModuleDecl::hasEntryPoint
ModuleDecl_hasEntryPoint == EntryPointInfo_hasEntryPoint(EntryPointInfo)

\* ------------------------------------------------------------ import graph

\* The modules of the import graph; each holds one source file.
AllModules == {"W", "X", "Y", "Z"}
\* The modules whose imports carry access paths.
TravModules == {"W", "X", "Y"}

\* AccessPathTy: at most one (identifier, source location) pair.
EmptyPath == <<>>
EdgePaths == {EmptyPath, <<[id |-> "v", loc |-> 1]>>}
NoPaths == {EmptyPath}
TopLevelPaths == {EmptyPath, <<[id |-> "v", loc |-> 2]>>, <<[id |-> "u", loc |-> 1]>>}

\* SourceFile::ImportOptions an import is declared with.
ImportOptionChoices == {{}, {"Exported"}, {"ImplementationOnly"}}

\* ImportedModule: the pair (access path, module).
ImportedModule(path, mod) == [first |-> path, second |-> mod]

\* SourceFile::ImportedModuleDesc
ImportedModuleDesc(module, options) == [module |-> module, importOptions |-> options]

\* The imports a file of module `from` may declare, over the given modules and
\* access paths.  Only an exported import is given a path: a path on any other
\* import restricts the importing file alone.
ImportChoices(modules, paths, from) ==
  {ImportedModuleDesc(ImportedModule(p, m), o) :
     p \in paths, m \in modules \ {from}, o \in ImportOptionChoices} \
  {d \in [module : [first : paths, second : modules], importOptions : ImportOptionChoices] :
     d.module.first # EmptyPath /\ "Exported" \notin d.importOptions}

\* ModuleDecl::isSameAccessPath: the same chain of identifiers, locations ignored.
isSameAccessPath(lhs, rhs) ==
  /\ Len(lhs) = Len(rhs)
  /\ \A i \in 1..Len(lhs) : lhs[i].id = rhs[i].id

\* DenseMapInfo<ImportedModule>::isEqual
isEqualImport(lhs, rhs) ==
  lhs.second = rhs.second /\ isSameAccessPath(lhs.first, rhs.first)

\* The ImportFilterKind an import edge falls under.
FilterKindOf(desc) ==
  IF "Exported" \in desc.importOptions THEN "Public"
  ELSE IF "ImplementationOnly" \in desc.importOptions THEN "ImplementationOnly"
  ELSE "Private"

\* SourceFile::getImportedModules(imports, filter): what it appends.
SourceFile_getImportedModules(importList, filter) ==
  LET Passes(desc) == FilterKindOf(desc) \in filter
      kept == SelectSeq(importList, Passes)
  IN [i \in 1..Len(kept) |-> kept[i].module]

\* The default with every kind of import included.
getImportedModulesForLookupAllKinds(importList) ==
  SourceFile_getImportedModules(importList, {"Public", "Private", "ImplementationOnly"})

\* FileUnit::getImportedModulesForLookup: the Public filter alone.
getImportedModulesForLookup(importList) ==
  SourceFile_getImportedModules(importList, {"Public"})

InitTrav ==
  /\ Imports = [m \in AllModules |-> <<>>]
  /\ travPC = "idle"
  /\ travStart = [kind |-> "none", mod |-> NULL, path |-> EmptyPath]
  /\ stack = <<>>
  /\ visited = {}
  /\ calls = <<>>
  /\ travResult = TRUE

TotalImports == Len(Imports["W"]) + Len(Imports["X"]) + Len(Imports["Y"]) + Len(Imports["Z"])

\* SourceFile::addImports, one import at a time.
AddImports(m, desc) ==
  /\ ~trapped
  /\ travPC = "idle"
  /\ TotalImports < MaxImports
  /\ \A i \in 1..Len(Imports[m]) : Imports[m][i] # desc
  /\ Imports' = [Imports EXCEPT ![m] = Append(@, desc)]
  /\ UNCHANGED <<travPC, travStart, stack, visited, calls, travResult>>
  /\ UNCHANGED notTrav

\* ------------------------------------------- constructing ImportedModuleDesc

\* SourceFile::ImportFlags
ImportFlags == {"Exported", "Testable", "PrivateImport", "ImplementationOnly"}

InitDesc ==
  /\ descs = {}
  /\ lastDesc = [options |-> {}, constructed |-> FALSE]

\* A constructor that accepts every set of options.
ImportedModuleDescNoAssert(options) == TRUE

\* The precondition asserted by the constructor of ImportedModuleDesc.
ImportedModuleDescAssert(options) ==
  ~("Exported" \in options /\ "ImplementationOnly" \in options)

\* An ImportedModuleDesc of module Z is constructed with the given options.
ConstructImportedModuleDesc(options) ==
  /\ ~trapped
  /\ Cardinality(descs) < MaxDescs
  /\ IF ImportedModuleDescAssert(options)
       THEN /\ descs' = descs \cup {ImportedModuleDesc(ImportedModule(EmptyPath, "Z"), options)}
            /\ lastDesc' = [options |-> options, constructed |-> TRUE]
            /\ UNCHANGED trapped
       ELSE /\ trapped' = TRUE
            /\ lastDesc' = [options |-> options, constructed |-> FALSE]
            /\ UNCHANGED descs
  /\ UNCHANGED <<entryData, travVars, sourceVars, uniqueVars, unitVars, attachVars, matchVars, cacheVars, opVars, sfVars, bitVars, keyVars, ctorVars>>

\* SourceFile::addImports on the file of W with a descriptor that exists.
AddConstructedImport(desc) ==
  /\ AddImports("W", desc)
  /\ UNCHANGED descVars

NextDesc ==
  \/ \E options \in SUBSET ImportFlags : ConstructImportedModuleDesc(options)
  \/ \E desc \in descs : AddConstructedImport(desc)

\* ---------------------------------------------------- forAllVisibleModules

\* Two access paths that name different declarations admit no common one.
Incompatible(outer, inner) ==
  outer # EmptyPath /\ inner # EmptyPath /\ ~isSameAccessPath(outer, inner)

\* The imports pushed for a module visited under `path`: those of `list` whose
\* access path is compatible with it, each under the narrower of the two paths.
Narrowed(path, list) ==
  LET Compatible(import) == ~Incompatible(path, import.first)
      kept == SelectSeq(list, Compatible)
  IN [i \in 1..Len(kept) |->
        ImportedModule(IF kept[i].first = EmptyPath THEN path ELSE kept[i].first,
                       kept[i].second)]

\* The visited-set test that never finds an import.
AlreadyVisitedNever(seen, next) == FALSE

\* Whether the visited set holds the same import (by path equality).
AlreadyVisited(seen, next) == \E v \in seen : isEqualImport(v, next)

\* A callback result that is never taken as a request to stop.
endsEarlyNever(ret) == FALSE

\* "Return false to abort iteration."
endsEarly(ret) == ~ret

\* ModuleDecl::forAllVisibleModules(topLevelAccessPath, fn) is entered.
StartModuleTraversal(m, topLevelAccessPath) ==
  /\ ~trapped
  /\ travPC = "idle"
  /\ travPC' = "running"
  /\ travStart' = [kind |-> "module", mod |-> m, path |-> topLevelAccessPath]
  /\ stack' = <<ImportedModule(topLevelAccessPath, m)>>
  /\ visited' = {}
  /\ calls' = <<>>
  /\ UNCHANGED <<Imports, travResult>>
  /\ UNCHANGED notTrav

\* FileUnit::forAllVisibleModules(fn) is entered on the source file of m: the
\* file's own imports of every kind, and its module.
StartFileTraversal(m) ==
  /\ ~trapped
  /\ travPC = "idle"
  /\ travPC' = "running"
  /\ travStart' = [kind |-> "file", mod |-> m, path |-> EmptyPath]
  /\ stack' = SourceFile_getImportedModules(Imports[m], {"Private", "ImplementationOnly"})
                \o <<ImportedModule(EmptyPath, m)>>
  /\ visited' = {}
  /\ calls' = <<>>
  /\ UNCHANGED <<Imports, travResult>>
  /\ UNCHANGED notTrav

\* One iteration of the traversal loop: pop an import, skip it if it was
\* visited, otherwise pass it to the callback, which returns `goOn`.
VisitNext(goOn) ==
  /\ travPC = "running"
  /\ stack # <<>>
  /\ LET next == stack[Len(stack)]
         rest == SubSeq(stack, 1, Len(stack) - 1)
     IN IF AlreadyVisited(visited, next)
          THEN /\ goOn
               /\ stack' = rest
               /\ UNCHANGED <<travPC, visited, calls, travResult>>
          ELSE /\ visited' = visited \cup {next}
               /\ calls' = Append(calls, [import |-> next, ret |-> goOn])
               /\ IF ~endsEarly(goOn)
                    THEN /\ stack' = rest \o
                               Narrowed(next.first,
                                        getImportedModulesForLookup(Imports[next.second]))
                         /\ UNCHANGED <<travPC, travResult>>
                    ELSE /\ stack' = rest
                         /\ travPC' = "done"
                         /\ travResult' = FALSE
  /\ UNCHANGED <<Imports, travStart>>
  /\ UNCHANGED notTrav

\* The stack is empty: the traversal ran to completion.
FinishTraversal ==
  /\ travPC = "running"
  /\ stack = <<>>
  /\ travPC' = "done"
  /\ travResult' = TRUE
  /\ UNCHANGED <<Imports, travStart, stack, visited, calls>>
  /\ UNCHANGED notTrav

\* A wrapper that hands the traversal a request to stop.
WrappedVoidCallbackStops(import) == FALSE

\* The lambda the void-callback overloads pass to the bool-callback overload:
\* it calls fn(import), which returns nothing, and returns true.
WrappedVoidCallback(import) == TRUE

\* One iteration of the loop in a traversal entered through a void-callback
\* overload.
VisitNextVoid ==
  /\ stack # <<>>
  /\ VisitNext(WrappedVoidCallback(stack[Len(stack)]))

\* Traversals entered through the void-callback overloads, from module W
\* and from its source file.
NextVoidTrav ==
  \/ \E m \in TravModules :
       \E desc \in ImportChoices(TravModules, EdgePaths, m) : AddImports(m, desc)
  \/ \E p \in TopLevelPaths : StartModuleTraversal("W", p)
  \/ StartFileTraversal("W")
  \/ VisitNextVoid
  \/ FinishTraversal

\* Traversals over three modules whose imports carry access paths.  Every
\* module may import every other, so starting from W stands for any start.
NextTrav ==
  \/ \E m \in TravModules :
       \E desc \in ImportChoices(TravModules, EdgePaths, m) : AddImports(m, desc)
  \/ \E p \in TopLevelPaths : StartModuleTraversal("W", p)
  \/ StartFileTraversal("W")
  \/ \E goOn \in BOOLEAN : VisitNext(goOn)
  \/ FinishTraversal

\* Traversals from the source file of W over four modules.
NextFileTrav ==
  \/ \E m \in AllModules :
       \E desc \in ImportChoices(AllModules, NoPaths, m) : AddImports(m, desc)
  \/ StartFileTraversal("W")
  \/ \E goOn \in BOOLEAN : VisitNext(goOn)
  \/ FinishTraversal

\* ------------------------------------------------- source files and lookup

\* The module looked into, M, holds the source files A and B; N is a loaded
\* module with one file.
LookupModules == {"M", "N"}
SourceFiles == {"A", "B"}
LoadedFiles == {"N1"}
DeclNames == {"v", "w"}

\* A top-level declaration: the file that declares it, its name, and whether
\* its access is private or fileprivate.
ValueDecl(file, name, private) == [file |-> file, name |-> name, private |-> private]

LookupPaths == {EmptyPath, <<[id |-> "w", loc |-> 2]>>}

\* The empty Identifier.
NoIdentifier == ""

\* SourceFile::ASTStage_t
Parsing == 0
Parsed == 1
NameBound == 2
TypeChecked == 3

InitSource ==
  /\ Files = [m \in LookupModules |-> IF m = "M" THEN <<"A", "B">> ELSE <<"N1">>]
  /\ Decls = [f \in SourceFiles \cup LoadedFiles |->
                IF f = "N1" THEN <<ValueDecl("N1", "v", FALSE)>> ELSE <<>>]
  /\ fileImports = [f \in SourceFiles |-> <<>>]
  /\ PrivateDiscriminator = [f \in SourceFiles |-> NoIdentifier]
  /\ ASTStage = [f \in SourceFiles |-> Parsing]
  /\ lastQuery = [op |-> "none"]

\* A matchesAccessPath that takes a path of any length.
matchesAccessPathNoAssert(AccessPath) == TRUE

\* The precondition asserted by matchesAccessPath.
matchesAccessPathAssert(AccessPath) == Len(AccessPath) <= 1

\* DeclName::matchesRef between two simple names.
matchesRef(name, refName) == name = refName

\* ModuleDecl::matchesAccessPath
matchesAccessPath(AccessPath, Name) ==
  AccessPath = <<>> \/ matchesRef(AccessPath[1].id, Name)

DeclsOf(f) == {Decls[f][i] : i \in DOMAIN Decls[f]}

FilesOf(m) == {Files[m][i] : i \in DOMAIN Files[m]}

\* FileUnit::lookupValue on one file: a local lookup in its top-level decls.
FileUnit_lookupValue(f, accessPath, name) ==
  {d \in DeclsOf(f) : d.name = name /\ matchesAccessPath(accessPath, name)}

\* The modules imported by the source files of module m.
ImportedByFiles(m) ==
  UNION {{fileImports[f][i].module.second : i \in DOMAIN fileImports[f]} :
           f \in FilesOf(m) \cap SourceFiles}

\* A lookup that also looks into the modules the files import.
lookupValueThroughImports(m, AccessPath, Name) ==
  UNION {FileUnit_lookupValue(f, AccessPath, Name) : f \in FilesOf(m)} \cup
  UNION {FileUnit_lookupValue(g, AccessPath, Name) :
           g \in UNION {FilesOf(n) : n \in ImportedByFiles(m)}}

\* ModuleDecl::lookupValue: the files' results together, imports not followed.
ModuleDecl_lookupValue(m, AccessPath, Name) ==
  UNION {FileUnit_lookupValue(f, AccessPath, Name) : f \in FilesOf(m)}

\* A discriminator that is the same for every file.
DiscriminatorSharedByFiles(f) == "_M"

\* The identifier getDiscriminatorForPrivateValue computes for a file.
DiscriminatorFor(f) == IF f = "A" THEN "_A" ELSE "_B"

\* SourceFile::getDiscriminatorForPrivateValue: computed on first use, then kept.
\* Returns the identifier and the discriminators afterwards.
getDiscriminatorForPrivateValue(discs, f) ==
  IF discs[f] # NoIdentifier
    THEN [id |-> discs[f], discs |-> discs]
    ELSE [id |-> DiscriminatorFor(f), discs |-> [discs EXCEPT ![f] = DiscriminatorFor(f)]]

\* The discriminators after they were computed for every file in `files`.
RECURSIVE ComputedFor(_, _)
ComputedFor(discs, files) ==
  IF files = {} THEN discs
  ELSE LET f == CHOOSE g \in files : TRUE
       IN ComputedFor(getDiscriminatorForPrivateValue(discs, f).discs, files \ {f})

\* ModuleDecl::lookupMember in the module itself (a top-level lookup): of the
\* declarations found, the non-private ones when the discriminator is empty,
\* otherwise the private ones of the file with that discriminator.
lookupMember(m, discs, name, privateDiscriminator) ==
  LET found == ModuleDecl_lookupValue(m, EmptyPath, name) IN
  IF privateDiscriminator = NoIdentifier
    THEN [results |-> {d \in found : ~d.private}, discs |-> discs]
    ELSE LET after == ComputedFor(discs, {d.file : d \in {e \in found : e.private}})
         IN [results |-> {d \in found : d.private /\ after[d.file] = privateDiscriminator},
             discs |-> after]

TotalDecls == Len(Decls["A"]) + Len(Decls["B"])

TotalFileImports == Len(fileImports["A"]) + Len(fileImports["B"])

\* The parser appends a top-level declaration to SourceFile::Decls.
AddDecl(f, name, private) ==
  /\ ~trapped
  /\ ASTStage[f] = Parsing
  /\ TotalDecls < MaxDecls
  /\ ValueDecl(f, name, private) \notin DeclsOf(f)
  /\ Decls' = [Decls EXCEPT ![f] = Append(@, ValueDecl(f, name, private))]
  /\ UNCHANGED <<Files, fileImports, PrivateDiscriminator, ASTStage, lastQuery>>
  /\ UNCHANGED notSource

\* SourceFile::addImports: name binding adds an import of module `mod`.
AddFileImport(f, mod) ==
  /\ ~trapped
  /\ TotalFileImports < MaxFileImports
  /\ fileImports' = [fileImports EXCEPT
       ![f] = Append(@, ImportedModuleDesc(ImportedModule(EmptyPath, mod), {}))]
  /\ UNCHANGED <<Files, Decls, PrivateDiscriminator, ASTStage, lastQuery>>
  /\ UNCHANGED notSource

\* Name binding is run again: the import list of the file is replaced.
DropFileImports(f) ==
  /\ ~trapped
  /\ fileImports[f] # <<>>
  /\ fileImports' = [fileImports EXCEPT ![f] = <<>>]
  /\ UNCHANGED <<Files, Decls, PrivateDiscriminator, ASTStage, lastQuery>>
  /\ UNCHANGED notSource

\* ModuleDecl::lookupValue is called on M.
LookupValue(AccessPath, Name) ==
  /\ ~trapped
  /\ IF matchesAccessPathAssert(AccessPath)
       THEN /\ lastQuery' = [op |-> "lookupValue", path |-> AccessPath, name |-> Name,
                             results |-> ModuleDecl_lookupValue("M", AccessPath, Name)]
            /\ UNCHANGED trapped
       ELSE /\ trapped' = TRUE
            /\ UNCHANGED lastQuery
  /\ UNCHANGED <<Files, Decls, fileImports, PrivateDiscriminator, ASTStage>>
  /\ UNCHANGED <<EntryPointInfo, infoCalls, infoLast, Kind, MainClass, diags,
                 attempts, firstRegistered, claims, travVars, uniqueVars, descVars, unitVars,
                 attachVars, matchVars, cacheVars, opVars, sfVars, bitVars, keyVars, ctorVars>>

\* ModuleDecl::lookupMember is called on M for a top-level name with a
\* discriminator the caller holds.
LookupMember(name, privateDiscriminator) ==
  /\ ~trapped
  /\ LET r == lookupMember("M", PrivateDiscriminator, name, privateDiscriminator) IN
       /\ lastQuery' = [op |-> "lookupMember", name |-> name, from |-> NULL,
                        discriminator |-> privateDiscriminator, results |-> r.results]
       /\ PrivateDiscriminator' = r.discs
  /\ UNCHANGED <<Files, Decls, fileImports, ASTStage>>
  /\ UNCHANGED notSource

\* The caller takes the discriminator of file f from
\* getDiscriminatorForPrivateValue and calls ModuleDecl::lookupMember with it.
LookupPrivateMember(f, name) ==
  /\ ~trapped
  /\ LET d == getDiscriminatorForPrivateValue(PrivateDiscriminator, f)
         r == lookupMember("M", d.discs, name, d.id) IN
       /\ lastQuery' = [op |-> "lookupMember", name |-> name, from |-> f,
                        discriminator |-> d.id, results |-> r.results]
       /\ PrivateDiscriminator' = r.discs
  /\ UNCHANGED <<Files, Decls, fileImports, ASTStage>>
  /\ UNCHANGED notSource

\* Discriminators a caller may hold without asking a file: none, or one that
\* belongs to no file of M.
Discriminators == {NoIdentifier, "_N1"}

NextLookup ==
  \/ \E f \in SourceFiles, name \in DeclNames, private \in BOOLEAN : AddDecl(f, name, private)
  \/ \E f \in SourceFiles : AddFileImport(f, "N")
  \/ \E f \in SourceFiles : DropFileImports(f)
  \/ \E path \in LookupPaths, name \in DeclNames : LookupValue(path, name)
  \/ \E name \in DeclNames, disc \in Discriminators : LookupMember(name, disc)
  \/ \E f \in SourceFiles, name \in DeclNames : LookupPrivateMember(f, name)

\* ------------------------------------------------------------ ASTStage

\* The stage a file is left in when parsing, name binding and type checking
\* complete.
stageParsingAgain == Parsing
stageAfterParsing == Parsed
stageAfterNameBinding == NameBound
stageAfterTypeChecking == TypeChecked

\* The parser reaches the end of file f.
FinishParsing(f) ==
  /\ ~trapped
  /\ ASTStage[f] = Parsing
  /\ ASTStage' = [ASTStage EXCEPT ![f] = stageAfterParsing]
  /\ UNCHANGED <<Files, Decls, fileImports, PrivateDiscriminator, lastQuery>>
  /\ UNCHANGED notSource

\* Name binding of file f: its imports are resolved and added with addImports.
PerformNameBinding(f, mods) ==
  /\ ~trapped
  /\ ASTStage[f] = Parsed
  /\ TotalFileImports + Len(mods) <= MaxFileImports
  /\ fileImports' = [fileImports EXCEPT ![f] = @ \o
       [i \in DOMAIN mods |-> ImportedModuleDesc(ImportedModule(EmptyPath, mods[i]), {})]]
  /\ ASTStage' = [ASTStage EXCEPT ![f] = stageAfterNameBinding]
  /\ UNCHANGED <<Files, Decls, PrivateDiscriminator, lastQuery>>
  /\ UNCHANGED notSource

\* Type checking of file f.
PerformTypeChecking(f) ==
  /\ ~trapped
  /\ ASTStage[f] = NameBound
  /\ ASTStage' = [ASTStage EXCEPT ![f] = stageAfterTypeChecking]
  /\ UNCHANGED <<Files, Decls, fileImports, PrivateDiscriminator, lastQuery>>
  /\ UNCHANGED notSource

ImportLists == {<<>>, <<"N">>, <<"M">>}

NextStage ==
  \/ \E f \in SourceFiles, name \in DeclNames, private \in BOOLEAN : AddDecl(f, name, private)
  \/ \E f \in SourceFiles : FinishParsing(f)
  \/ \E f \in SourceFiles, mods \in ImportLists : PerformNameBinding(f, mods)
  \/ \E f \in SourceFiles : PerformTypeChecking(f)

\* ------------------------------------------------ removeDuplicateImports

VectorModules == {"X", "Y"}
VectorPaths ==
  {EmptyPath, <<[id |-> "v", loc |-> 1]>>, <<[id |-> "v", loc |-> 2]>>,
   <<[id |-> "w", loc |-> 1]>>, <<[id |-> "v", loc |-> 1], [id |-> "w", loc |-> 2]>>}

InitUnique ==
  /\ imports = <<>>
  /\ uniqued = FALSE
  /\ uniquedFrom = <<>>

\* Two records that are equal with their source locations.
isIdenticalImport(lhs, rhs) == lhs = rhs

\* Two records that removeDuplicateImports takes for the same import.
isDuplicateImport(lhs, rhs) ==
  lhs.second = rhs.second /\ isSameAccessPath(lhs.first, rhs.first)

\* The records of `vector` added to `kept`, each unless `kept` holds a
\* duplicate of it by then.
RECURSIVE UniquedInto(_, _)
UniquedInto(kept, vector) ==
  IF vector = <<>> THEN kept
  ELSE UniquedInto(IF \E i \in DOMAIN kept : isDuplicateImport(kept[i], Head(vector))
                     THEN kept
                     ELSE Append(kept, Head(vector)),
                   Tail(vector))

\* ModuleDecl::removeDuplicateImports: each record is kept unless an earlier
\* one is a duplicate of it.
removeDuplicateImports(vector) == UniquedInto(<<>>, vector)

\* A caller collects one more import into its vector.
PushImport(path, mod) ==
  /\ ~trapped
  /\ Len(imports) < MaxVector
  /\ imports' = Append(imports, ImportedModule(path, mod))
  /\ uniqued' = FALSE
  /\ uniquedFrom' = <<>>
  /\ UNCHANGED notUnique

\* The caller hands its vector to removeDuplicateImports.
CallRemoveDuplicateImports ==
  /\ ~trapped
  /\ imports' = removeDuplicateImports(imports)
  /\ uniqued' = TRUE
  /\ uniquedFrom' = imports
  /\ UNCHANGED notUnique

NextUnique ==
  \/ \E path \in VectorPaths, mod \in VectorModules : PushImport(path, mod)
  \/ CallRemoveDuplicateImports

\* ------------------------------------------------- queries on file units

\* The file units queried: the source file of module W, the BuiltinUnit, and
\* a LoadedFile that defines no more than it must.
FileUnits == {"Source", "Builtin", "Loaded"}

\* Queries FileUnit answers with a null pointer unless overridden.
NullQueries == {"lookupLocalType", "lookupOpaqueResultType", "lookupNestedType"}

\* Queries FileUnit answers by adding nothing to their output unless overridden.
OutputQueries ==
  {"lookupVisibleDecls", "lookupClassMembers", "lookupClassMember",
   "getTopLevelDecls", "getPrecedenceGroups", "getLocalTypeDecls",
   "getOpaqueReturnTypeDecls", "getDisplayDecls"}

\* The member functions of FileUnit each variant overrides.
Overridden(unit) ==
  IF unit = "Source"
    THEN {"lookupValue", "lookupVisibleDecls", "lookupClassMembers", "lookupClassMember",
          "lookupObjCMethods", "getTopLevelDecls", "getPrecedenceGroups",
          "lookupLocalType", "getLocalTypeDecls", "getOpaqueReturnTypeDecls",
          "getImportedModules", "collectLinkLibraries",
          "getDiscriminatorForPrivateValue", "walk", "getMainClass",
          "hasEntryPoint", "lookupOpaqueResultType"}
  \* BuiltinUnit overrides these three; a LoadedFile must define them, being
  \* pure in FileUnit.
  ELSE {"lookupValue", "lookupObjCMethods", "getDiscriminatorForPrivateValue"}

\* Output collections handed to a query, holding what the caller put there.
OutVectors == {<<>>, <<"held">>}
ImportVectors == {<<>>, <<ImportedModule(EmptyPath, "Y")>>}
ImportFilters == SUBSET {"Public", "Private", "ImplementationOnly"}

\* What a call gives back: whether it trapped, the value returned and the
\* output collection afterwards.
Returned(ret, out) == [trap |-> FALSE, ret |-> ret, out |-> out]
Trapped(out) == [trap |-> TRUE, ret |-> NULL, out |-> out]

InitUnit ==
  unitCall = [unit |-> NULL, op |-> "none", filter |-> {}, importList |-> <<>>,
              before |-> <<>>, after |-> <<>>, ret |-> NULL, trap |-> FALSE]

\* FileUnit::lookupLocalType, lookupOpaqueResultType, lookupNestedType
FileUnit_lookupNull(unit, op) == Returned(NULL, <<>>)

\* A default that empties the collection it is given.
FileUnit_outputCleared(unit, op, out) == Returned("void", <<>>)

\* FileUnit::lookupVisibleDecls, lookupClassMembers, lookupClassMember,
\* getTopLevelDecls, getPrecedenceGroups, getLocalTypeDecls,
\* getOpaqueReturnTypeDecls: empty bodies; getDisplayDecls calls getTopLevelDecls.
FileUnit_outputUntouched(unit, op, out) == Returned("void", out)

\* getImportedModules as the variant defines it: SourceFile overrides it, the
\* default of FileUnit adds nothing.
FileUnit_getImportedModules(unit, importList, out, filter) ==
  IF "getImportedModules" \in Overridden(unit)
    THEN Returned("void", out \o SourceFile_getImportedModules(importList, filter))
    ELSE Returned("void", out)

\* A default that asks for the private imports as well.
FileUnit_getImportedModulesForLookupWithPrivate(unit, importList, out) ==
  FileUnit_getImportedModules(unit, importList, out, {"Public", "Private"})

\* FileUnit::getImportedModulesForLookup, which no variant overrides.
FileUnit_getImportedModulesForLookup(unit, importList, out) ==
  FileUnit_getImportedModules(unit, importList, out, {"Public"})

\* FileUnit::hasEntryPoint
FileUnit_hasEntryPoint(unit) == Returned(FALSE, <<>>)

\* FileUnit::getMainClass: asserts hasEntryPoint(), then returns null.
FileUnit_getMainClass(unit) ==
  IF FileUnit_hasEntryPoint(unit).ret THEN Returned(NULL, <<>>) ELSE Trapped(<<>>)

\* FileUnit::hasMainClass: getMainClass() as a bool.
FileUnit_hasMainClass(unit) ==
  LET r == FileUnit_getMainClass(unit) IN
  IF r.trap THEN r ELSE Returned(r.ret # NULL, <<>>)

\* BuiltinUnit::getDiscriminatorForPrivateValue: llvm_unreachable.
BuiltinUnit_getDiscriminatorForPrivateValue(decl) == Trapped(<<>>)

\* The call is made and recorded.
Called(unit, op, filter, importList, before, r) ==
  /\ ~trapped
  /\ unitCall' = [unit |-> unit, op |-> op, filter |-> filter, importList |-> importList,
                  before |-> before, after |-> r.out, ret |-> r.ret, trap |-> r.trap]
  /\ trapped' = r.trap
  /\ UNCHANGED notUnit

CallNullQuery(unit, op) ==
  /\ op \notin Overridden(unit)
  /\ Called(unit, op, {}, <<>>, <<>>, FileUnit_lookupNull(unit, op))

CallOutputQuery(unit, op, out) ==
  /\ op \notin Overridden(unit)
  /\ Called(unit, op, {}, <<>>, out, FileUnit_outputUntouched(unit, op, out))

\* The imports of a unit: those of the source file of W, none for the others.
ImportsOfUnit(unit) == IF unit = "Source" THEN Imports["W"] ELSE <<>>

CallGetImportedModules(unit, out, filter) ==
  Called(unit, "getImportedModules", filter, ImportsOfUnit(unit), out,
         FileUnit_getImportedModules(unit, ImportsOfUnit(unit), out, filter))

CallGetImportedModulesForLookup(unit, out) ==
  Called(unit, "getImportedModulesForLookup", {}, ImportsOfUnit(unit), out,
         FileUnit_getImportedModulesForLookup(unit, ImportsOfUnit(unit), out))

CallHasEntryPoint(unit) ==
  /\ "hasEntryPoint" \notin Overridden(unit)
  /\ Called(unit, "hasEntryPoint", {}, <<>>, <<>>, FileUnit_hasEntryPoint(unit))

CallGetMainClass(unit) ==
  /\ "getMainClass" \notin Overridden(unit)
  /\ Called(unit, "getMainClass", {}, <<>>, <<>>, FileUnit_getMainClass(unit))

CallHasMainClass(unit) ==
  /\ "getMainClass" \notin Overridden(unit)
  /\ Called(unit, "hasMainClass", {}, <<>>, <<>>, FileUnit_hasMainClass(unit))

CallGetDiscriminatorForPrivateValue(decl) ==
  Called("Builtin", "getDiscriminatorForPrivateValue", {}, <<>>, <<>>,
         BuiltinUnit_getDiscriminatorForPrivateValue(decl))

\* The source file of W declares one more import.
DeclareImport(desc) ==
  /\ AddImports("W", desc)
  /\ UNCHANGED unitVars

NextUnit ==
  \/ \E desc \in ImportChoices({"W", "X"}, NoPaths, "W") : DeclareImport(desc)
  \/ \E unit \in FileUnits, op \in NullQueries : CallNullQuery(unit, op)
  \/ \E unit \in FileUnits, op \in OutputQueries, out \in OutVectors :
       CallOutputQuery(unit, op, out)
  \/ \E unit \in FileUnits, out \in ImportVectors, filter \in ImportFilters :
       CallGetImportedModules(unit, out, filter)
  \/ \E unit \in FileUnits, out \in ImportVectors :
       CallGetImportedModulesForLookup(unit, out)
  \/ \E unit \in FileUnits : CallHasEntryPoint(unit)
  \/ \E unit \in FileUnits : CallGetMainClass(unit)
  \/ \E unit \in FileUnits : CallHasMainClass(unit)
  \/ \E decl \in DeclNames : CallGetDiscriminatorForPrivateValue(decl)

\* ----------------------------------------------- construction of file units

\* enum class FileUnitKind
FileUnitKinds == {"Source", "Builtin", "SerializedAST", "ClangModule", "DWARFModule"}

\* LoadedFile::classof as it was before DWARF modules were added.
LoadedFile_classofNoDWARF(kind) == kind \in {"SerializedAST", "ClangModule"}

\* LoadedFile::classof(const FileUnit *)
LoadedFile_classof(kind) == kind \in {"SerializedAST", "ClangModule", "DWARFModule"}

\* SourceFile::classof, BuiltinUnit::classof and LoadedFile::classof on a file
\* unit of the given Kind.
classof(class, kind) ==
  CASE class = "SourceFile" -> kind = "Source"
    [] class = "BuiltinUnit" -> kind = "Builtin"
    [] class = "LoadedFile" -> LoadedFile_classof(kind)

\* The slots file units are constructed in; none is constructed yet.
InitCtor ==
  /\ constructed = [u \in {"u1", "u2"} |->
                      [class |-> "none", Kind |-> "none", parent |-> NULL, inFiles |-> FALSE]]
  /\ ctorCall = [op |-> "none", class |-> "none", Kind |-> "none", trap |-> FALSE]

\* A file unit is constructed for module M.  SourceFile and BuiltinUnit pass
\* their own kind to FileUnit; LoadedFile passes the kind it is given and
\* asserts classof(this).
ConstructFileUnit(u, class, kind, M) ==
  /\ ~trapped
  /\ constructed[u].class = "none"
  /\ class = "SourceFile" => kind = "Source"
  /\ class = "BuiltinUnit" => kind = "Builtin"
  /\ IF class = "LoadedFile" /\ ~LoadedFile_classof(kind)
       THEN /\ trapped' = TRUE
            /\ ctorCall' = [op |-> "construct", class |-> class, Kind |-> kind, trap |-> TRUE]
            /\ UNCHANGED constructed
       ELSE /\ constructed' = [constructed EXCEPT
                 ![u] = [class |-> class, Kind |-> kind, parent |-> M, inFiles |-> FALSE]]
            /\ ctorCall' = [op |-> "construct", class |-> class, Kind |-> kind, trap |-> FALSE]
            /\ UNCHANGED trapped
  /\ UNCHANGED notCtor

\* ModuleDecl::addFile and removeFile on the parent of a constructed unit: the
\* unit enters or leaves Files.
AddOrRemoveFileUnit(u) ==
  /\ ~trapped
  /\ constructed[u].class # "none"
  /\ constructed' = [constructed EXCEPT ![u].inFiles = ~@]
  /\ ctorCall' = [op |-> "addOrRemoveFile", class |-> constructed[u].class,
                  Kind |-> constructed[u].Kind, trap |-> FALSE]
  /\ UNCHANGED <<trapped, notCtor>>

NextCtor ==
  \/ \E u \in DOMAIN constructed, class \in {"SourceFile", "BuiltinUnit", "LoadedFile"},
        kind \in FileUnitKinds, M \in LookupModules : ConstructFileUnit(u, class, kind, M)
  \/ \E u \in DOMAIN constructed : AddOrRemoveFileUnit(u)

\* ------------------------------------- ImportedModule records as set and map keys

\* The buffers access paths point into, by address: two hold the identifier v
\* written at different locations, one holds w.  Address 0 is the null pointer.
PathStorage ==
  <<<<[id |-> "v", loc |-> 1]>>, <<[id |-> "v", loc |-> 2]>>, <<[id |-> "w", loc |-> 1]>>>>

\* The addresses of two modules and the two reserved pointers of
\* DenseMapInfo<ModuleDecl *>.
ModuleAddress == [X |-> 1, Y |-> 2, EmptyKey |-> 3, TombstoneKey |-> 4]

\* An ImportedModule whose access path is the ArrayRef (data, size).
KeyRecords ==
  {r \in [data : 0..Len(PathStorage), size : 0..1, second : {"X", "Y"}] :
     r.data = 0 => r.size = 0}
  \cup [data : {0}, size : {0}, second : {"EmptyKey", "TombstoneKey"}]

\* The record with the elements its ArrayRef refers to.
AsImportedModule(val) ==
  ImportedModule(IF val.size = 0 THEN EmptyPath
                 ELSE SubSeq(PathStorage[val.data], 1, val.size), val.second)

InitKeys ==
  keyCall = [op |-> "none", lhs |-> NULL, rhs |-> NULL, less |-> FALSE,
             greater |-> FALSE, isEqual |-> FALSE, hashLhs |-> <<>>, hashRhs |-> <<>>]

\* A comparator that orders by module and storage address alone.
OrderIgnoringSize(lhs, rhs) ==
  IF lhs.second # rhs.second
    THEN ModuleAddress[lhs.second] < ModuleAddress[rhs.second]
    ELSE lhs.data < rhs.data

\* ModuleDecl::OrderImportedModules::operator()
OrderImportedModules(lhs, rhs) ==
  IF lhs.second # rhs.second
    THEN ModuleAddress[lhs.second] < ModuleAddress[rhs.second]
  ELSE IF lhs.data # rhs.data
    THEN lhs.data < rhs.data
  ELSE lhs.size < rhs.size

\* A hash over the elements of the access path, locations included.
getHashValueOfElements(val) == <<AsImportedModule(val).first, val.second>>

\* DenseMapInfo<ImportedModule>::getHashValue: the hash of the pair (size,
\* module), kept as the pair.
getHashValue(val) == <<val.size, val.second>>

CompareKeys(lhs, rhs) ==
  /\ ~trapped
  /\ keyCall' = [op |-> "compare", lhs |-> lhs, rhs |-> rhs,
                 less |-> OrderImportedModules(lhs, rhs),
                 greater |-> OrderImportedModules(rhs, lhs),
                 isEqual |-> isEqualImport(AsImportedModule(lhs), AsImportedModule(rhs)),
                 hashLhs |-> getHashValue(lhs), hashRhs |-> getHashValue(rhs)]
  /\ UNCHANGED <<trapped, notKeys>>

NextKeys == \E lhs \in KeyRecords, rhs \in KeyRecords : CompareKeys(lhs, rhs)

\* ------------------------------------------------------- module-wide flags

\* The boolean fields of Bits.ModuleDecl that have a setter taking a bool.
ModuleBits == {"TestingEnabled", "ImplicitDynamicEnabled", "PrivateImportsEnabled",
               "FailedToLoad", "IsSystemModule", "IsNonSwiftModule"}

InitBits ==
  /\ Bits = [bit \in ModuleBits |-> FALSE]
  /\ bitCall = [op |-> "none", bit |-> NULL, value |-> FALSE]

\* setTestingEnabled, setImplicitDynamicEnabled, setPrivateImportsEnabled,
\* setFailedToLoad, setIsSystemModule, setIsNonSwiftModule: each assigns its
\* argument to its field, except setPrivateImportsEnabled, which assigns true.
\* The getters return the field.
setModuleBit(bits, bit, value) ==
  [bits EXCEPT ![bit] = IF bit = "PrivateImportsEnabled" THEN TRUE ELSE value]

SetModuleBit(bit, value) ==
  /\ ~trapped
  /\ Bits' = setModuleBit(Bits, bit, value)
  /\ bitCall' = [op |-> "set", bit |-> bit, value |-> value]
  /\ UNCHANGED <<trapped, notBits>>

NextBits == \E bit \in ModuleBits, value \in BOOLEAN : SetModuleBit(bit, value)

\* ------------------------------------------ operators and precedence groups

\* The four tables of a file: InfixOperators, PrefixOperators,
\* PostfixOperators, PrecedenceGroups.
Fixities == {"infix", "prefix", "postfix", "precedencegroup"}

\* The names looked up, and those of them the files declare.
OperatorNames == {"+", "-"}
DeclaredOperatorNames == {"+"}

\* An operator or precedence-group declaration: a table holds at most one per
\* identifier and file.
OperatorDecl(file, fixity, name) == [file |-> file, fixity |-> fixity, name |-> name]

OperatorDecls ==
  {OperatorDecl(f, fx, n) : f \in SourceFiles \cup LoadedFiles, fx \in Fixities,
                            n \in DeclaredOperatorNames}

\* Who is asked: a module or one of the source files.
OperatorScopes == LookupModules \cup SourceFiles

InitOp ==
  /\ Operators = {}
  /\ opCall = [op |-> "none", on |-> NULL, fixity |-> NULL, name |-> NoIdentifier,
               ret |-> {}]

\* The module a file belongs to.
ModuleOf(f) == CHOOSE m \in LookupModules : f \in FilesOf(m)

\* The modules a source file imports.
ImportedBy(f) == {fileImports[f][i].module.second : i \in DOMAIN fileImports[f]}

\* The entry of a file's table for a name, if there is one.
OperatorMapFind(f, fixity, name) ==
  {d \in Operators : d.file = f /\ d.fixity = fixity /\ d.name = name}

\* The declarations of a name and fixity in the files of a module.
OperatorsInModule(m, fixity, name) ==
  UNION {OperatorMapFind(f, fixity, name) : f \in FilesOf(m)}

\* The declarations of a name and fixity a scope sees: a module sees those of
\* its files, a source file its own and those of the modules it imports.
OperatorCandidates(scope, fixity, name) ==
  IF scope \in LookupModules
    THEN OperatorsInModule(scope, fixity, name)
    ELSE OperatorMapFind(scope, fixity, name) \cup
         UNION {OperatorsInModule(m, fixity, name) : m \in ImportedBy(scope)}

\* A resolution that returns one of the candidates whenever there is any.
resolveOperatorAnyWinner(candidates) ==
  IF candidates = {} THEN {} ELSE {CHOOSE d \in candidates : TRUE}

\* The declaration returned for a set of candidates: the candidate if it is
\* the only one, otherwise null (the empty set).
resolveOperator(candidates) ==
  IF Cardinality(candidates) = 1 THEN candidates ELSE {}

\* ModuleDecl / SourceFile ::lookupInfixOperator, lookupPrefixOperator,
\* lookupPostfixOperator, lookupPrecedenceGroup
lookupOperator(scope, fixity, name) ==
  resolveOperator(OperatorCandidates(scope, fixity, name))

TotalOperators == Cardinality(Operators)

\* The parser records an operator or precedence-group declaration in the
\* table of its file.
DeclareOperator(d) ==
  /\ ~trapped
  /\ TotalOperators < MaxOperators
  /\ d \notin Operators
  /\ Operators' = Operators \cup {d}
  /\ UNCHANGED <<opCall, trapped>>
  /\ UNCHANGED notOp

LookupOperator(scope, fixity, name) ==
  /\ ~trapped
  /\ opCall' = [op |-> "lookup", on |-> scope, fixity |-> fixity, name |-> name,
                ret |-> lookupOperator(scope, fixity, name)]
  /\ UNCHANGED <<Operators, trapped>>
  /\ UNCHANGED notOp

NextOp ==
  \/ \E d \in OperatorDecls : DeclareOperator(d)
  \/ AddFileImport("A", "N")
  \/ \E scope \in OperatorScopes, fixity \in Fixities, name \in OperatorNames :
       LookupOperator(scope, fixity, name)

\* ------------------------------------------------------------ lookup caches

\* The caches: the one of module M and the one of each of its source files.
CacheOwners == {"M"} \cup SourceFiles

\* An unset std::unique_ptr<SourceLookupCache>.
NoCache == [built |-> FALSE, TopLevelValues |-> {}]

\* SourceLookupCache built over a set of top-level declarations.
SourceLookupCache(decls) == [built |-> TRUE, TopLevelValues |-> decls]

InitCache ==
  /\ Cache = NoCache
  /\ FileCache = [f \in SourceFiles |-> NoCache]
  /\ fresh = [o \in CacheOwners |-> FALSE]
  /\ cacheCall = [op |-> "none", on |-> NULL, name |-> NoIdentifier,
                  ret |-> {}, fresh |-> FALSE]

\* The declarations a cache of owner `o` indexes: those of the module's files,
\* or those of the one file.
DeclsIndexedFor(o) ==
  IF o = "M" THEN UNION {DeclsOf(f) : f \in FilesOf("M")} ELSE DeclsOf(o)

CacheOf(o) == IF o = "M" THEN Cache ELSE FileCache[o]

\* ModuleDecl::getSourceLookupCache / SourceFile::getCache: the cache, built
\* from the current declarations if there is none.
getSourceLookupCache(o) ==
  IF CacheOf(o).built THEN CacheOf(o) ELSE SourceLookupCache(DeclsIndexedFor(o))

\* SourceLookupCache::lookupValue
SourceLookupCache_lookupValue(cache, AccessPath, Name) ==
  {d \in cache.TopLevelValues : d.name = Name /\ matchesAccessPath(AccessPath, Name)}

\* A lookup that reads the declarations and no cache.
UncachedLookupValue(o, AccessPath, Name) ==
  IF o = "M" THEN ModuleDecl_lookupValue("M", AccessPath, Name)
             ELSE FileUnit_lookupValue(o, AccessPath, Name)

\* A clearLookupCache that leaves the cache as it is.
clearLookupCacheKeeps(cache) == cache

\* ModuleDecl::clearLookupCache / SourceFile::clearLookupCache
clearLookupCache(cache) == NoCache

StoreCache(o, cache) ==
  IF o = "M" THEN Cache' = cache /\ UNCHANGED FileCache
             ELSE FileCache' = [FileCache EXCEPT ![o] = cache] /\ UNCHANGED Cache

\* ModuleDecl::lookupValue / SourceFile::lookupValue, served from the cache.
CachedLookupValue(o, Name) ==
  /\ ~trapped
  /\ StoreCache(o, getSourceLookupCache(o))
  /\ cacheCall' = [op |-> "lookupValue", on |-> o, name |-> Name,
                   ret |-> SourceLookupCache_lookupValue(getSourceLookupCache(o),
                                                         EmptyPath, Name),
                   fresh |-> fresh[o]]
  /\ fresh' = [fresh EXCEPT ![o] = FALSE]
  /\ UNCHANGED <<trapped, notCache>>

ClearLookupCache(o) ==
  /\ ~trapped
  /\ StoreCache(o, clearLookupCache(CacheOf(o)))
  /\ cacheCall' = [op |-> "clearLookupCache", on |-> o, name |-> NoIdentifier,
                   ret |-> {}, fresh |-> fresh[o]]
  /\ fresh' = [fresh EXCEPT ![o] = TRUE]
  /\ UNCHANGED <<trapped, notCache>>

\* ModuleDecl::addFile: the file is appended to Files.
AddFile(f) ==
  /\ ~trapped
  /\ f \notin FilesOf("M")
  /\ Files' = [Files EXCEPT !["M"] = Append(@, f)]
  /\ UNCHANGED <<Decls, fileImports, PrivateDiscriminator, ASTStage, lastQuery>>
  /\ UNCHANGED notSource

\* ModuleDecl::removeFile: the file is taken out of Files.
RemoveFile(f) ==
  /\ ~trapped
  /\ f \in FilesOf("M")
  /\ Files' = [Files EXCEPT !["M"] = SelectSeq(@, LAMBDA g : g # f)]
  /\ UNCHANGED <<Decls, fileImports, PrivateDiscriminator, ASTStage, lastQuery>>
  /\ UNCHANGED notSource

NextCache ==
  \/ \E f \in SourceFiles, name \in DeclNames : AddDecl(f, name, FALSE)
  \/ \E f \in SourceFiles : AddFile(f)
  \/ \E f \in SourceFiles : RemoveFile(f)
  \/ \E o \in CacheOwners : ClearLookupCache(o)
  \/ \E o \in CacheOwners, name \in DeclNames : CachedLookupValue(o, name)

\* ------------------------------------------------ calls of matchesAccessPath

\* The (identifier, source location) pairs an access path is made of.
PathElements == {[id |-> i, loc |-> l] : i \in {"u", "v", "w"}, l \in {1, 2}}

\* The access paths a caller may pass: empty, one element, two elements.
AccessPaths ==
  {EmptyPath} \cup {<<e>> : e \in PathElements}
              \cup {<<e1, e2>> : e1 \in PathElements, e2 \in PathElements}

\* The names asked about.
RefNames == {"u", "v", "w"}

InitMatch ==
  matchCall = [op |-> "none", path |-> EmptyPath, name |-> NoIdentifier,
               ret |-> FALSE, trap |-> FALSE]

CallMatchesAccessPath(AccessPath, Name) ==
  /\ ~trapped
  /\ IF matchesAccessPathAssert(AccessPath)
       THEN /\ matchCall' = [op |-> "call", path |-> AccessPath, name |-> Name,
                             ret |-> matchesAccessPath(AccessPath, Name),
                             trap |-> FALSE]
            /\ UNCHANGED trapped
       ELSE /\ matchCall' = [op |-> "call", path |-> AccessPath, name |-> Name,
                             ret |-> FALSE, trap |-> TRUE]
            /\ trapped' = TRUE
  /\ UNCHANGED notMatch

NextMatch ==
  \E AccessPath \in AccessPaths, Name \in RefNames :
    CallMatchesAccessPath(AccessPath, Name)

\* ------------------------------------- debugger client and private filenames

\* The debugger clients a caller may hand over, the null pointer among them.
DebuggerClients == {NULL, "d1", "d2"}

\* The private declarations of a loaded file and the file names they may come
\* from, the empty Identifier among them.
PrivateDecls == {"p1", "p2"}
Filenames == {NoIdentifier, "a.swift", "b.swift"}

\* A DenseMap entry: whether the key is in the map, and its value.
NoEntry == [count |-> 0, second |-> NoIdentifier]
Entry(id) == [count |-> 1, second |-> id]

InitAttach ==
  /\ DebugClient = NULL
  /\ debugSets = 0
  /\ FilenameForPrivateDecls = [d \in PrivateDecls |-> NoEntry]
  /\ filenameCall = [op |-> "none", decl |-> NULL, id |-> NoIdentifier,
                     ret |-> NoIdentifier, trap |-> FALSE]

\* The precondition asserted by setDebugClient.
setDebugClientAssert(client) == client = NULL

\* ModuleDecl::setDebugClient
SetDebugClient(R) ==
  /\ ~trapped
  /\ debugSets < MaxDebugSets
  /\ debugSets' = debugSets + 1
  /\ IF setDebugClientAssert(DebugClient)
       THEN DebugClient' = R /\ UNCHANGED trapped
       ELSE trapped' = TRUE /\ UNCHANGED DebugClient
  /\ UNCHANGED <<FilenameForPrivateDecls, filenameCall>>
  /\ UNCHANGED notAttach

\* An addFilenameForPrivateDecl that accepts every call.
addFilenameForPrivateDeclNoAssert(map, decl, id) == TRUE

\* The precondition asserted by addFilenameForPrivateDecl.
addFilenameForPrivateDeclAssert(map, decl, id) ==
  map[decl].count = 0 \/ map[decl].second = id

\* LoadedFile::addFilenameForPrivateDecl
addFilenameForPrivateDecl(map, decl, id) == [map EXCEPT ![decl] = Entry(id)]

\* LoadedFile::getFilenameForPrivateDecl
getFilenameForPrivateDecl(map, decl) ==
  IF map[decl].count = 0 THEN NoIdentifier ELSE map[decl].second

AddFilenameForPrivateDecl(decl, id) ==
  /\ ~trapped
  /\ IF addFilenameForPrivateDeclAssert(FilenameForPrivateDecls, decl, id)
       THEN /\ FilenameForPrivateDecls' =
                 addFilenameForPrivateDecl(FilenameForPrivateDecls, decl, id)
            /\ filenameCall' = [op |-> "add", decl |-> decl, id |-> id,
                                ret |-> NoIdentifier, trap |-> FALSE]
            /\ UNCHANGED trapped
       ELSE /\ trapped' = TRUE
            /\ filenameCall' = [op |-> "add", decl |-> decl, id |-> id,
                                ret |-> NoIdentifier, trap |-> TRUE]
            /\ UNCHANGED FilenameForPrivateDecls
  /\ UNCHANGED <<DebugClient, debugSets>>
  /\ UNCHANGED notAttach

GetFilenameForPrivateDecl(decl) ==
  /\ ~trapped
  /\ filenameCall' = [op |-> "get", decl |-> decl, id |-> NoIdentifier,
                      ret |-> getFilenameForPrivateDecl(FilenameForPrivateDecls, decl),
                      trap |-> FALSE]
  /\ UNCHANGED <<DebugClient, debugSets, FilenameForPrivateDecls, trapped>>
  /\ UNCHANGED notAttach

NextAttach ==
  \/ \E R \in DebuggerClients : SetDebugClient(R)
  \/ \E decl \in PrivateDecls, id \in Filenames : AddFilenameForPrivateDecl(decl, id)
  \/ \E decl \in PrivateDecls : GetFilenameForPrivateDecl(decl)

\* ---------------------------------------------- calls on the record itself

\* A module holds at most one script-mode file (main.swift or the REPL input).
FileKindChoices ==
  {k \in [EntryFiles -> SourceFileKinds] :
     Cardinality({f \in EntryFiles : k[f] = "Main"}) <= 1}

\* The five kinds of SourceFileKind.
AnySourceFileKinds == {"Library", "Main", "REPL", "SIL", "Interface"}

\* Files of any kind, at most one of them in script mode.
AnyFileKindChoices ==
  {k \in [EntryFiles -> AnySourceFileKinds] :
     Cardinality({f \in EntryFiles : k[f] \in {"Main", "REPL"}}) <= 1}

InitSf == sfCall = [op |-> "none", file |-> NULL, ret |-> FALSE]

InitEntryOf(kinds) ==
  /\ EntryPointInfo = EmptyEntryPointInfo
  /\ trapped = FALSE
  /\ infoCalls = [multi |-> 0, script |-> 0, set |-> 0]
  /\ infoLast = <<"none", FALSE>>
  /\ Kind \in kinds
  /\ MainClass = [f \in EntryFiles |-> NULL]
  /\ diags = <<>>
  /\ attempts = 0
  /\ firstRegistered = NULL
  /\ claims = <<>>

InitEntry == InitEntryOf(FileKindChoices)

\* The program after construction.
Init == InitEntry /\ InitTrav /\ InitSource /\ InitUnique /\ InitDesc /\ InitUnit /\ InitAttach /\ InitMatch /\ InitCache /\ InitOp /\ InitSf /\ InitBits /\ InitKeys /\ InitCtor

InfoCallsMade == infoCalls.multi + infoCalls.script + infoCalls.set

CallSetEntryPointFile(file) ==
  /\ ~trapped
  /\ InfoCallsMade < MaxInfoCalls
  /\ infoCalls' = [infoCalls EXCEPT !.set = @ + 1]
  /\ IF setEntryPointFileAssert(EntryPointInfo)
       THEN /\ EntryPointInfo' = setEntryPointFile(EntryPointInfo, file)
            /\ infoLast' = <<"set", TRUE>>
            /\ firstRegistered' = file
            /\ UNCHANGED trapped
       ELSE /\ trapped' = TRUE
            /\ infoLast' = <<"set", FALSE>>
            /\ UNCHANGED <<EntryPointInfo, firstRegistered>>
  /\ UNCHANGED <<Kind, MainClass, diags, attempts, claims>>
  /\ UNCHANGED notEntry

CallMarkDiagnosedMultipleMainClasses ==
  /\ ~trapped
  /\ InfoCallsMade < MaxInfoCalls
  /\ LET r == markDiagnosedMultipleMainClasses(EntryPointInfo) IN
       /\ EntryPointInfo' = r.storage
       /\ infoLast' = <<"multi", r.res>>
  /\ infoCalls' = [infoCalls EXCEPT !.multi = @ + 1]
  /\ UNCHANGED <<trapped, Kind, MainClass, diags, attempts, firstRegistered, claims>>
  /\ UNCHANGED notEntry

CallMarkDiagnosedMainClassWithScript ==
  /\ ~trapped
  /\ InfoCallsMade < MaxInfoCalls
  /\ LET r == markDiagnosedMainClassWithScript(EntryPointInfo) IN
       /\ EntryPointInfo' = r.storage
       /\ infoLast' = <<"script", r.res>>
  /\ infoCalls' = [infoCalls EXCEPT !.script = @ + 1]
  /\ UNCHANGED <<trapped, Kind, MainClass, diags, attempts, firstRegistered, claims>>
  /\ UNCHANGED notEntry

NextInfo ==
  \/ \E file \in EntryFiles : CallSetEntryPointFile(file)
  \/ CallMarkDiagnosedMultipleMainClasses
  \/ CallMarkDiagnosedMainClassWithScript

SpecInfo == Init /\ [][NextInfo]_vars

\* ------------------------------------------ ModuleDecl::registerEntryPointFile

\* FileUnit::getMainClass of the file that holds the entry point.
ExistingClass(storage, mainClass) == mainClass[getEntryPointFile(storage)]

\* registerEntryPointFile(file, diagLoc, kind): `isClass` is kind.hasValue(),
\* a main-class claim; a script-mode file claims with no kind.  Returns the
\* result (true: there was a problem), the record and the diagnostics reported.
registerEntryPointFile(storage, mainClass, file, isClass) ==
  IF ~EntryPointInfo_hasEntryPoint(storage)
    THEN [problem |-> FALSE,
          storage |-> setEntryPointFile(storage, file),
          reported |-> <<>>]
    ELSE LET existingIsClass == ExistingClass(storage, mainClass) # NULL IN
      IF existingIsClass /\ isClass
        THEN LET r == markDiagnosedMultipleMainClasses(storage) IN
          [problem |-> TRUE, storage |-> r.storage,
           reported |-> IF r.res THEN <<"MultipleMainClasses">> ELSE <<>>]
      ELSE IF existingIsClass # isClass
        THEN LET r == markDiagnosedMainClassWithScript(storage) IN
          [problem |-> TRUE, storage |-> r.storage,
           reported |-> IF r.res THEN <<"MainClassWithScript">> ELSE <<>>]
      ELSE [problem |-> TRUE, storage |-> storage, reported |-> <<>>]

\* What two claims on the entry point of one module amount to: the holder's
\* claim (a main class or a script-mode file) against the new one.
ConflictOf(holder, holderIsClass, isClass) ==
  IF holder = NULL THEN "none"
  ELSE IF holderIsClass /\ isClass THEN "MultipleMainClasses"
  ELSE IF holderIsClass \/ isClass THEN "MainClassWithScript"
  ELSE "TwoScripts"

Claim(file, isClass) ==
  [file |-> file, isClass |-> isClass,
   conflict |-> ConflictOf(EntryPointInfo.ptr,
                           EntryPointInfo.ptr # NULL /\ MainClass[EntryPointInfo.ptr] # NULL,
                           isClass)]

\* SourceFile::registerMainClass(mainClass, diagLoc)
RegisterMainClass(file, class) ==
  /\ ~trapped
  /\ attempts < MaxAttempts
  /\ attempts' = attempts + 1
  /\ IF class = MainClass[file]
       THEN UNCHANGED <<EntryPointInfo, MainClass, diags, firstRegistered, claims>>
       ELSE LET r == registerEntryPointFile(EntryPointInfo, MainClass, file, TRUE) IN
         /\ claims' = Append(claims, Claim(file, TRUE))
         /\ EntryPointInfo' = r.storage
         /\ diags' = diags \o r.reported
         /\ MainClass' = IF r.problem THEN MainClass
                                      ELSE [MainClass EXCEPT ![file] = class]
         /\ firstRegistered' = IF r.problem THEN firstRegistered ELSE file
  /\ UNCHANGED <<trapped, infoCalls, infoLast, Kind>>
  /\ UNCHANGED notEntry

\* SourceFile::isScriptMode with the REPL kind left out.
isScriptModeMainOnly(kind) == kind = "Main"

\* SourceFile::isScriptMode
isScriptMode(kind) ==
  CASE kind \in {"Main", "REPL"} -> TRUE
    [] kind \in {"Library", "Interface", "SIL"} -> FALSE

\* SourceFile::hasEntryPoint: script mode, or hasMainClass() on the file's
\* own getMainClass().
SourceFile_hasEntryPoint(kind, mainClass) == isScriptMode(kind) \/ mainClass # NULL

\* A script-mode file claims the entry point of its module.
RegisterScriptFile(file) ==
  /\ ~trapped
  /\ isScriptMode(Kind[file])
  /\ attempts < MaxAttempts
  /\ attempts' = attempts + 1
  /\ LET r == registerEntryPointFile(EntryPointInfo, MainClass, file, FALSE) IN
       /\ claims' = Append(claims, Claim(file, FALSE))
       /\ EntryPointInfo' = r.storage
       /\ diags' = diags \o r.reported
       /\ firstRegistered' = IF r.problem THEN firstRegistered ELSE file
  /\ UNCHANGED <<trapped, infoCalls, infoLast, Kind, MainClass>>
  /\ UNCHANGED notEntry

NextModule ==
  \/ \E file \in EntryFiles, class \in MainClasses : RegisterMainClass(file, class)
  \/ \E file \in EntryFiles : RegisterScriptFile(file)

SpecModule == Init /\ [][NextModule]_vars

\* The record's own methods and the module's registrations together.
NextEntry == NextInfo \/ NextModule

SpecEntry == Init /\ [][NextEntry]_vars

CallSourceFileHasEntryPoint(file) ==
  /\ ~trapped
  /\ sfCall' = [op |-> "hasEntryPoint", file |-> file,
                ret |-> SourceFile_hasEntryPoint(Kind[file], MainClass[file])]
  /\ UNCHANGED <<trapped, notSf>>

\* Registrations by files of every kind, and hasEntryPoint asked of them.
NextSf ==
  \/ NextModule
  \/ \E file \in EntryFiles : CallSourceFileHasEntryPoint(file)

\* The program after construction, its files of any kind.
InitAnyKind ==
  /\ InitEntryOf(AnyFileKindChoices)
  /\ InitTrav /\ InitSource /\ InitUnique /\ InitDesc /\ InitUnit /\ InitAttach /\ InitBits /\ InitKeys /\ InitCtor
  /\ InitMatch /\ InitCache /\ InitOp /\ InitSf

SpecSf == InitAnyKind /\ [][NextSf]_vars

\* The entry-point record as constructed, with no choice of file kinds.
EntryIdle ==
  /\ InitEntry
  /\ Kind = [f \in EntryFiles |-> "Library"]

\* The program after construction, with no script-mode file.
InitIdle == EntryIdle /\ InitTrav /\ InitSource /\ InitUnique /\ InitDesc /\ InitUnit /\ InitAttach /\ InitMatch /\ InitCache /\ InitOp /\ InitSf /\ InitBits /\ InitKeys /\ InitCtor

SpecTrav == InitIdle /\ [][NextTrav]_vars

SpecFileTrav == InitIdle /\ [][NextFileTrav]_vars

SpecVoidTrav == InitIdle /\ [][NextVoidTrav]_vars

SpecLookup == InitIdle /\ [][NextLookup]_vars

SpecStage == InitIdle /\ [][NextStage]_vars

SpecUnique == InitIdle /\ [][NextUnique]_vars

SpecDesc == InitIdle /\ [][NextDesc]_vars

SpecUnit == InitIdle /\ [][NextUnit]_vars

SpecAttach == InitIdle /\ [][NextAttach]_vars

SpecMatch == InitIdle /\ [][NextMatch]_vars

SpecCache == InitIdle /\ [][NextCache]_vars

SpecOp == InitIdle /\ [][NextOp]_vars

SpecBits == InitIdle /\ [][NextBits]_vars

SpecKeys == InitIdle /\ [][NextKeys]_vars

SpecCtor == InitIdle /\ [][NextCtor]_vars

\* ------------------------------------------------------ traversal properties

\* The identifiers of an access path.
Ids(path) == [i \in 1..Len(path) |-> path[i].id]

\* An import up to path equality.
Key(import) == <<Ids(import.first), import.second>>

\* The imports the traversal starts from.
StartKeys ==
  IF travStart.kind = "module" THEN {<<Ids(travStart.path), travStart.mod>>}
  ELSE IF travStart.kind = "file"
    THEN {<<<<>>, travStart.mod>>} \cup
         {<<Ids(d.module.first), d.module.second>> :
            d \in {Imports[travStart.mod][i] : i \in DOMAIN Imports[travStart.mod]}}
  ELSE {}

\* What the re-exports of a visited import lead to.
ExportedFrom(key) ==
  LET exported == {d \in {Imports[key[2]][i] : i \in DOMAIN Imports[key[2]]} :
                     "Exported" \in d.importOptions}
      fits == {d \in exported :
                 key[1] = <<>> \/ d.module.first = <<>> \/ Ids(d.module.first) = key[1]}
  IN {<<IF d.module.first = <<>> THEN key[1] ELSE Ids(d.module.first), d.module.second>> :
        d \in fits}

RECURSIVE Closure(_)
Closure(keys) ==
  LET more == keys \cup UNION {ExportedFrom(k) : k \in keys}
  IN IF more = keys THEN keys ELSE Closure(more)

\* Every import visible from the start, up to path equality.
ReachKeys == Closure(StartKeys)

VisitedKeys == {Key(calls[i].import) : i \in DOMAIN calls}

IdChains == {<<>>, <<"v">>, <<"u">>}

\* A quantity every iteration of the traversal loop decreases.
Rank ==
  Len(stack) +
  (Cardinality(AllModules) * Cardinality(IdChains) - Cardinality(visited)) * (TotalImports + 1)

NoImportVisitedTwice ==
  \A i, j \in DOMAIN calls :
    i # j => ~isEqualImport(calls[i].import, calls[j].import)

IsCycleWX ==
  /\ travStart = [kind |-> "module", mod |-> "W", path |-> EmptyPath]
  /\ Imports["W"] = <<ImportedModuleDesc(ImportedModule(EmptyPath, "X"), {"Exported"})>>
  /\ Imports["X"] = <<ImportedModuleDesc(ImportedModule(EmptyPath, "W"), {"Exported"})>>
  /\ Imports["Y"] = <<>>

CallbackNeverStopped == \A i \in DOMAIN calls : calls[i].ret

\* C4: forAllVisibleModules terminates on every import graph, cycles included
\* (each iteration of its loop decreases Rank, which is never negative), and
\* passes no two path-equal imports of one module to the callback; on the cycle
\* W <-> X with a callback that never stops it visits W and X once each and
\* returns true.
C4_TerminatesVisitsOnce ==
  /\ [](NoImportVisitedTwice /\ Rank >= 0)
  /\ [][travPC = "running" /\ travPC' = "running" => Rank' < Rank]_vars
  /\ [](travPC = "done" /\ IsCycleWX /\ CallbackNeverStopped =>
          /\ travResult = TRUE
          /\ Len(calls) = 2
          /\ {calls[i].import.second : i \in DOMAIN calls} = {"W", "X"})

\* The traversal of the cycle W <-> X ran to completion.
C4_Witness ==
  /\ travPC = "done"
  /\ IsCycleWX
  /\ CallbackNeverStopped
  /\ Len(calls) = 2
  /\ travResult = TRUE

\* C5 as stated: the result is false iff a callback returned false, nothing is
\* visited after that, and the result is true exactly when every visible import
\* was visited.
C5_Original ==
  /\ \A i \in 1..(Len(calls) - 1) : calls[i].ret
  /\ travPC = "done" =>
       /\ (travResult = FALSE <=> \E i \in DOMAIN calls : ~calls[i].ret)
       /\ (travResult = TRUE <=> VisitedKeys = ReachKeys)

\* C5 (amended): the result is false iff a callback returned false, nothing is
\* visited after that, and a true result means every visible import was visited.
C5_EarlyTermination ==
  /\ \A i \in 1..(Len(calls) - 1) : calls[i].ret
  /\ travPC = "done" =>
       /\ (travResult = FALSE <=> \E i \in DOMAIN calls : ~calls[i].ret)
       /\ (travResult = TRUE => VisitedKeys = ReachKeys)

\* The callback stopped the traversal at the second import, others unvisited.
C5_Witness ==
  /\ travPC = "done"
  /\ travResult = FALSE
  /\ Len(calls) = 2
  /\ ~calls[2].ret
  /\ VisitedKeys # ReachKeys

ImportsOf(m) == {Imports[m][i] : i \in DOMAIN Imports[m]}

\* The modules reached from the start file over its own imports of any kind and
\* then over imports that are not implementation-only.
RECURSIVE NonLeakingClosure(_)
NonLeakingClosure(mods) ==
  LET more == mods \cup
        {d.module.second : d \in {e \in UNION {ImportsOf(m) : m \in mods} :
                                     "ImplementationOnly" \notin e.importOptions}}
  IN IF more = mods THEN mods ELSE NonLeakingClosure(more)

NonLeakingReach ==
  IF travStart.mod = NULL THEN {}
  ELSE NonLeakingClosure({travStart.mod} \cup
                         {d.module.second : d \in ImportsOf(travStart.mod)})

VisitedModules == {calls[i].import.second : i \in DOMAIN calls}

\* C6: a traversal from a file visits no module that is reached only through
\* an implementation-only import of another file, and, run to completion, it
\* does visit the file's own implementation-only imports and their re-exports.
C6_ImplementationOnlyStops ==
  /\ VisitedModules \subseteq NonLeakingReach
  /\ travPC = "done" /\ travResult = TRUE =>
       \A d \in ImportsOf(travStart.mod) :
         "ImplementationOnly" \in d.importOptions =>
           /\ d.module.second \in VisitedModules
           /\ \A e \in ImportsOf(d.module.second) :
                "Exported" \in e.importOptions => e.module.second \in VisitedModules

\* W imports X, X imports Y implementation-only, Y re-exports Z: the traversal
\* from W's file ran to completion without visiting Y or Z.
C6_Witness ==
  /\ travPC = "done"
  /\ travResult = TRUE
  /\ travStart.kind = "file"
  /\ \E o \in {{}, {"Exported"}} :
       Imports["W"] = <<ImportedModuleDesc(ImportedModule(EmptyPath, "X"), o)>>
  /\ Imports["X"] = <<ImportedModuleDesc(ImportedModule(EmptyPath, "Y"), {"ImplementationOnly"})>>
  /\ Imports["Y"] = <<ImportedModuleDesc(ImportedModule(EmptyPath, "Z"), {"Exported"})>>
  /\ VisitedModules = {"W", "X"}

\* W imports Y implementation-only and Y re-exports Z: the traversal from W's
\* file visited both.
C6_DirectStartReached ==
  /\ travPC = "done"
  /\ travResult = TRUE
  /\ Imports["W"] = <<ImportedModuleDesc(ImportedModule(EmptyPath, "Y"), {"ImplementationOnly"})>>
  /\ Imports["Y"] = <<ImportedModuleDesc(ImportedModule(EmptyPath, "Z"), {"Exported"})>>
  /\ VisitedModules = {"W", "Y", "Z"}

\* ------------------------------------------------------- lookup properties

\* The top-level declarations of the files of M.
DeclsOfM == DeclsOf("A") \cup DeclsOf("B")

\* The lookup this step makes, if it makes one.
Asked(op) == lastQuery' # lastQuery /\ lastQuery'.op = op

\* C7: ModuleDecl::lookupValue is local-only: what it returns is exactly what
\* the files of the module declare under the name (through the access path),
\* and a step that adds or removes an import of one of those files changes the
\* result of no lookup.
C7_LookupValueLocalOnly ==
  [][/\ Asked("lookupValue") =>
          lastQuery'.results =
            {d \in DeclsOfM : /\ d.name = lastQuery'.name
                              /\ \/ lastQuery'.path = <<>>
                                 \/ lastQuery'.path[1].id = d.name}
     /\ fileImports' # fileImports =>
          \A p \in LookupPaths, n \in DeclNames :
            ModuleDecl_lookupValue("M", p, n)' = ModuleDecl_lookupValue("M", p, n)]_vars

\* A lookup of v returned the declarations of both files while a file imports
\* N, which declares v as well.
C7_Witness ==
  /\ lastQuery.op = "lookupValue"
  /\ lastQuery.name = "v"
  /\ \E a \in lastQuery.results : a.file = "A"
  /\ \E b \in lastQuery.results : b.file = "B"
  /\ "N" \in ImportedByFiles("M")
  /\ lastQuery.results = {d \in DeclsOfM : d.name = "v"}

\* C9: lookupMember with an empty discriminator returns the non-private
\* declarations of the name and no other; with a non-empty one it returns the
\* private declarations of the file whose discriminator it is and no other, so
\* a lookup with the discriminator of file A never returns a declaration of
\* file B.
C9_PrivateDiscriminatorScopes ==
  [][Asked("lookupMember") =>
       LET q == lastQuery'
           named == {d \in DeclsOfM : d.name = q.name}
       IN /\ q.discriminator = NoIdentifier =>
               q.results = {d \in named : ~d.private}
          /\ q.discriminator # NoIdentifier =>
               q.results = {d \in named : d.private /\
                              PrivateDiscriminator'[d.file] = q.discriminator}
          /\ q.from # NULL =>
               q.results = {d \in named : d.private /\ d.file = q.from}]_vars

\* Both files declare a private v, and a lookup with the discriminator of A
\* returned the one of A.
C9_Witness ==
  /\ ValueDecl("A", "v", TRUE) \in DeclsOf("A")
  /\ ValueDecl("B", "v", TRUE) \in DeclsOf("B")
  /\ lastQuery.op = "lookupMember"
  /\ lastQuery.from = "A"
  /\ lastQuery.name = "v"
  /\ lastQuery.results = {ValueDecl("A", "v", TRUE)}

\* ------------------------------------------------------ ASTStage properties

KeysOf(vector) == {Key(vector[i]) : i \in DOMAIN vector}

\* The vector in another order.
Reordered(vector, perm) == [i \in DOMAIN vector |-> vector[perm[i]]]

\* C8: after removeDuplicateImports no two records of the vector have the same
\* module and path-equal access paths, every record handed in is path-equal to
\* one that is left (and every one left was handed in), applying it again
\* changes nothing, and the imports left, taken up to source locations, are
\* the same for every order of the vector handed in.
C8_RemoveDuplicateImports ==
  uniqued =>
    /\ \A i, j \in DOMAIN imports :
         (imports[i].second = imports[j].second /\
          isSameAccessPath(imports[i].first, imports[j].first)) => i = j
    /\ \A i \in DOMAIN uniquedFrom : \E j \in DOMAIN imports :
         /\ imports[j].second = uniquedFrom[i].second
         /\ isSameAccessPath(imports[j].first, uniquedFrom[i].first)
    /\ \A j \in DOMAIN imports : \E i \in DOMAIN uniquedFrom : imports[j] = uniquedFrom[i]
    /\ removeDuplicateImports(imports) = imports
    /\ \A perm \in Permutations(DOMAIN uniquedFrom) :
         KeysOf(removeDuplicateImports(Reordered(uniquedFrom, perm))) = KeysOf(imports)

\* A vector with two records that differ in their source locations only, and
\* a third record, was uniqued to two records.
C8_Witness ==
  /\ uniqued
  /\ Len(uniquedFrom) = 3
  /\ Len(imports) = 2
  /\ \E i, j \in DOMAIN uniquedFrom :
       /\ i # j
       /\ uniquedFrom[i] # uniquedFrom[j]
       /\ Key(uniquedFrom[i]) = Key(uniquedFrom[j])

\* ------------------------------------------- ImportedModuleDesc properties

\* The options of one import edge hold both Exported and ImplementationOnly.
BothFlags(options) == "Exported" \in options /\ "ImplementationOnly" \in options

\* C11: constructing an ImportedModuleDesc with both Exported and
\* ImplementationOnly fails the assertion and yields no descriptor, so no
\* descriptor that exists and no entry of a file's Imports carries both.
C11_NeverBothFlags ==
  /\ \A d \in descs : ~BothFlags(d.importOptions)
  /\ \A m \in AllModules : \A i \in DOMAIN Imports[m] : ~BothFlags(Imports[m][i].importOptions)
  /\ BothFlags(lastDesc.options) => trapped /\ ~lastDesc.constructed
  /\ lastDesc.constructed =>
       ImportedModuleDesc(ImportedModule(EmptyPath, "Z"), lastDesc.options) \in descs

\* A construction with both flags was attempted after another descriptor had
\* been constructed and added to the imports of a file.
C11_Witness ==
  /\ BothFlags(lastDesc.options)
  /\ trapped
  /\ Len(Imports["W"]) = 1
  /\ Cardinality(descs) = 1

\* ------------------------------------------------- file-unit properties

\* The queries that do not apply to a unit and that FileUnit answers itself.
DefaultQueries ==
  NullQueries \cup OutputQueries \cup
  {"getImportedModules", "getImportedModulesForLookup",
   "hasEntryPoint", "getMainClass", "hasMainClass"}

\* The last call was a query the unit leaves to FileUnit.
AskedDefault(ops) == unitCall.op \in ops \ Overridden(unitCall.unit)

\* C12 as stated: on a unit that overrides none of them, hasEntryPoint()
\* returns false, hasMainClass() false and getMainClass() null, and none traps.
C12_Original ==
  AskedDefault({"hasEntryPoint", "getMainClass", "hasMainClass"}) =>
    /\ ~unitCall.trap
    /\ unitCall.ret = IF unitCall.op = "getMainClass" THEN NULL ELSE FALSE

\* C17 as stated: getDiscriminatorForPrivateValue on the BuiltinUnit traps
\* and returns nothing, and every other query that does not apply to the
\* BuiltinUnit returns normally.
C17_Original ==
  unitCall.unit = "Builtin" =>
    /\ unitCall.op = "getDiscriminatorForPrivateValue" =>
         unitCall.trap /\ unitCall.ret = NULL
    /\ AskedDefault(DefaultQueries) => ~unitCall.trap

\* C18: on a unit that does not override them, lookupLocalType,
\* lookupOpaqueResultType and lookupNestedType return null, and the queries
\* that fill a collection (getImportedModules among them) leave it as it was
\* passed in; none traps.
C18_DefaultsFindNothing ==
  /\ AskedDefault(NullQueries) => unitCall.ret = NULL /\ ~unitCall.trap
  /\ AskedDefault(OutputQueries \cup {"getImportedModules"}) =>
       unitCall.after = unitCall.before /\ ~unitCall.trap

\* getTopLevelDecls on the LoadedFile was handed a collection that held an
\* element.
C18_Witness ==
  /\ unitCall.unit = "Loaded"
  /\ unitCall.op = "getTopLevelDecls"
  /\ unitCall.before = <<"held">>
  /\ unitCall.after = <<"held">>

\* The module records of the imports declared @_exported, in order.
ExportedRecords(importList) ==
  LET IsExported(desc) == "Exported" \in desc.importOptions
      kept == SelectSeq(importList, IsExported)
  IN [i \in 1..Len(kept) |-> kept[i].module]

\* C20: getImportedModulesForLookup, which no unit overrides, appends to its
\* output exactly the records of the exported imports of the unit, that is
\* what getImportedModules appends under the filter {Public}; the records of
\* Private and ImplementationOnly imports are not appended, and a unit that
\* leaves getImportedModules to FileUnit gets nothing appended.
C20_LookupImportsArePublic ==
  /\ unitCall.op = "getImportedModulesForLookup" =>
       /\ ~unitCall.trap
       /\ unitCall.after =
            unitCall.before \o
              (IF unitCall.unit = "Source" THEN ExportedRecords(unitCall.importList) ELSE <<>>)
  /\ (unitCall.op = "getImportedModules" /\ unitCall.filter = {"Public"}) =>
       unitCall.after =
         unitCall.before \o
           (IF unitCall.unit = "Source" THEN ExportedRecords(unitCall.importList) ELSE <<>>)

\* The source file declares an exported, a plain and an implementation-only
\* import, and the lookup imports appended to a collection that held a record
\* are the exported one alone.
C20_Witness ==
  /\ unitCall.unit = "Source"
  /\ unitCall.op = "getImportedModulesForLookup"
  /\ Len(unitCall.importList) = 3
  /\ Len(unitCall.before) = 1
  /\ Len(unitCall.after) = 2
  /\ \E i \in 1..3 : unitCall.importList[i].importOptions = {"ImplementationOnly"}
  /\ \E i \in 1..3 : unitCall.importList[i].importOptions = {}

\* ------------------------------------------------- operator lookup properties

\* The files whose tables a scope sees.
VisibleFiles(scope) ==
  IF scope \in LookupModules THEN FilesOf(scope)
  ELSE {scope} \cup UNION {FilesOf(m) : m \in ImportedBy(scope)}

C14_NotStaleAfterClear ==
  [][\A o \in CacheOwners :
       (cacheCall' # cacheCall /\ cacheCall'.on = o) =>
         /\ (cacheCall'.op = "lookupValue" /\ cacheCall'.fresh) =>
              /\ \A name \in DeclNames :
                   cacheCall'.name = name =>
                     cacheCall'.ret = UncachedLookupValue(o, EmptyPath, name)'
              /\ CacheOf(o)' = SourceLookupCache(DeclsIndexedFor(o))'
         /\ cacheCall'.op = "clearLookupCache" => CacheOf(o)' = NoCache]_vars

\* File A's cache was built while A was empty, a declaration named v was then
\* appended to A, the module's cache was cleared, and the module's lookup that
\* followed found v; the cache of file A, not cleared, is as it was.
C14_Witness ==
  /\ cacheCall.op = "lookupValue"
  /\ cacheCall.on = "M"
  /\ cacheCall.fresh
  /\ cacheCall.name = "v"
  /\ cacheCall.ret = {ValueDecl("A", "v", FALSE)}
  /\ FileCache["A"] = SourceLookupCache({})

\* ------------------------------------------------ matchesAccessPath properties

\* C16: an empty access path matches every name; a one-element access path
\* matches exactly the names equal to its identifier, whatever its source
\* location; a longer access path fails the assertion.
C16_MatchesAccessPath ==
  matchCall.op = "call" =>
    /\ Len(matchCall.path) = 0 => ~matchCall.trap /\ matchCall.ret
    /\ Len(matchCall.path) = 1 =>
         /\ ~matchCall.trap
         /\ matchCall.ret <=> (matchCall.path[1].id = matchCall.name)
    /\ Len(matchCall.path) > 1 => matchCall.trap /\ trapped

\* A one-element path, written at the second location, was asked about the
\* name it carries and matched.
C16_Witness ==
  /\ matchCall.op = "call"
  /\ matchCall.path = <<[id |-> "w", loc |-> 2]>>
  /\ matchCall.name = "w"
  /\ matchCall.ret

\* ---------------------------------- debugger client and filename properties

\* C13 as stated: once setDebugClient has been called, every later call
\* traps and the debugger client no longer changes.
C13_Original ==
  [][debugSets >= 1 =>
       /\ DebugClient' = DebugClient
       /\ debugSets' > debugSets => trapped']_vars

\* C19: an entry of the map of private declarations to file names, once
\* added, keeps its value; adding it again with the same name leaves the map
\* as it is, adding it with another name fails the assertion, and
\* getFilenameForPrivateDecl returns the name added, or the empty string for a
\* declaration never added.
C19_FilenameWriteOnce ==
  [][/\ \A d \in PrivateDecls :
          FilenameForPrivateDecls[d].count = 1 =>
            FilenameForPrivateDecls'[d] = FilenameForPrivateDecls[d]
     /\ (filenameCall' # filenameCall /\ filenameCall'.op = "add") =>
          LET d == filenameCall'.decl
              had == FilenameForPrivateDecls[d].count = 1
              was == FilenameForPrivateDecls[d].second
          IN /\ (had /\ was = filenameCall'.id) =>
                  ~trapped' /\ FilenameForPrivateDecls' = FilenameForPrivateDecls
             /\ (had /\ was # filenameCall'.id) => trapped'
             /\ ~had => ~trapped' /\ FilenameForPrivateDecls'[d] = Entry(filenameCall'.id)
     /\ (filenameCall' # filenameCall /\ filenameCall'.op = "get") =>
          filenameCall'.ret =
            IF FilenameForPrivateDecls[filenameCall'.decl].count = 1
              THEN FilenameForPrivateDecls[filenameCall'.decl].second
              ELSE NoIdentifier]_vars

\* A declaration was added with one name and then again with another, which
\* trapped and left the first name in place.
C19_Witness ==
  /\ filenameCall.op = "add"
  /\ filenameCall.trap
  /\ filenameCall.decl = "p1"
  /\ FilenameForPrivateDecls["p1"] = Entry("a.swift")
  /\ filenameCall.id = "b.swift"

\* ---------------------------------------------------- entry-point properties

Count(seq, x) == Cardinality({i \in DOMAIN seq : seq[i] = x})

ConflictsSeen(kind) == {i \in DOMAIN claims : claims[i].conflict = kind}

\* C1: over any sequence of registrations on one module, "multiple main
\* classes" is reported exactly once if two main-class claims ever conflicted
\* and never otherwise, however many conflicting registrations follow.
C1_MultipleMainClassesOnce ==
  Count(diags, "MultipleMainClasses") =
    (IF ConflictsSeen("MultipleMainClasses") # {} THEN 1 ELSE 0)

\* Two distinct files claimed with a main class over three attempts, the last
\* two conflicting, and one diagnosis was reported.
C1_Witness ==
  /\ Len(claims) = 3
  /\ Cardinality(ConflictsSeen("MultipleMainClasses")) = 2
  /\ \E i, j \in DOMAIN claims : claims[i].file # claims[j].file
  /\ Count(diags, "MultipleMainClasses") = 1

\* C2: each of the two mark methods returns true exactly on its own first
\* call, whatever number of calls of the other preceded it.
C2_IndependentLatches ==
  /\ (infoLast[1] = "multi" => (infoLast[2] <=> infoCalls.multi = 1))
  /\ (infoLast[1] = "script" => (infoLast[2] <=> infoCalls.script = 1))

\* The first markDiagnosedMainClassWithScript call returned true after two
\* markDiagnosedMultipleMainClasses calls.
C2_Witness ==
  /\ infoLast = <<"script", TRUE>>
  /\ infoCalls.multi = 2
  /\ infoCalls.script = 1

\* C3: the entry-point file is stored by the first call that finds none and
\* never changes afterwards; setEntryPointFile on a set record traps instead
\* of overwriting; hasEntryPoint() is true exactly once a file was stored.
C3_FirstWinsImmutable ==
  [][ /\ (getEntryPointFile(EntryPointInfo) # NULL =>
            getEntryPointFile(EntryPointInfo') = getEntryPointFile(EntryPointInfo))
      /\ (EntryPointInfo_hasEntryPoint(EntryPointInfo') <=> firstRegistered' # NULL)
      /\ (firstRegistered' # NULL =>
            getEntryPointFile(EntryPointInfo') = firstRegistered')
      /\ (firstRegistered # NULL => firstRegistered' = firstRegistered)
      /\ (getEntryPointFile(EntryPointInfo) = NULL /\ Len(claims') > Len(claims) =>
            getEntryPointFile(EntryPointInfo') = claims'[Len(claims')].file)
      /\ (getEntryPointFile(EntryPointInfo) # NULL /\ infoCalls'.set > infoCalls.set =>
            trapped')
    ]_vars

\* A file registered first, another file's later registration was refused, and a
\* second setEntryPointFile trapped, the first file still being the entry point.
C3_Witness ==
  /\ trapped
  /\ Len(claims) >= 2
  /\ claims[1].conflict = "none"
  /\ claims[2].file # claims[1].file
  /\ getEntryPointFile(EntryPointInfo) = claims[1].file
  /\ ModuleDecl_hasEntryPoint


\* C25: the two mark operations leave the entry-point file alone,
\* setEntryPointFile leaves both diagnosed flags alone, and no step clears a
\* flag that is set.
C25_PointerAndFlagsIndependent ==
  [][/\ (infoCalls'.multi > infoCalls.multi \/ infoCalls'.script > infoCalls.script) =>
          /\ getEntryPointFile(EntryPointInfo') = getEntryPointFile(EntryPointInfo)
          /\ EntryPointInfo_hasEntryPoint(EntryPointInfo') =
               EntryPointInfo_hasEntryPoint(EntryPointInfo)
     /\ infoCalls'.set > infoCalls.set => EntryPointInfo'.int = EntryPointInfo.int
     /\ \A flag \in {DiagnosedMultipleMainClasses, DiagnosedMainClassWithScript} :
          Contains(EntryPointInfo.int, flag) => Contains(EntryPointInfo'.int, flag)]_vars

\* Both flags were set on an empty record and setEntryPointFile then
\* succeeded: the record holds the file and both flags.
C25_Witness ==
  /\ infoLast = <<"set", TRUE>>
  /\ infoCalls.multi >= 1 /\ infoCalls.script >= 1
  /\ EntryPointInfo.ptr # NULL
  /\ EntryPointInfo.int = 3


\* ------------------------------------------- SourceFile::hasEntryPoint properties

\* C21: hasEntryPoint() of a source file is true exactly when the file's kind
\* is Main or REPL or the file has a registered main class; for a Library file
\* that is exactly when one of its registerMainClass calls has succeeded.
C21_HasEntryPointIffScriptOrMainClass ==
  [][(sfCall' # sfCall /\ sfCall'.op = "hasEntryPoint") =>
       LET f == sfCall'.file IN
         /\ sfCall'.ret <=> (Kind[f] \in {"Main", "REPL"} \/ MainClass[f] # NULL)
         /\ Kind[f] = "Library" =>
              (sfCall'.ret <=>
                 \E i \in DOMAIN claims :
                   claims[i].file = f /\ claims[i].isClass /\ claims[i].conflict = "none")]_vars

\* A REPL file with no main class was asked and has an entry point.
C21_Witness ==
  /\ sfCall.op = "hasEntryPoint"
  /\ Kind[sfCall.file] = "REPL"
  /\ MainClass[sfCall.file] = NULL
  /\ sfCall.ret


\* ------------------------------------------------ module-wide flag properties

\* C22 as stated: after a setter is called with b, the getter of its flag
\* returns b, for b true and b false, and every other flag is as it was.
C22_Original ==
  [][(bitCall' # bitCall /\ bitCall'.op = "set") =>
       /\ Bits'[bitCall'.bit] = bitCall'.value
       /\ \A other \in ModuleBits \ {bitCall'.bit} : Bits'[other] = Bits[other]]_vars


\* ------------------------------------------------ set and map key properties

\* C23 as stated: two records that are the same import are ordered neither
\* before the other by OrderImportedModules.
C23_Original ==
  (keyCall.op = "compare" /\ keyCall.isEqual) => ~keyCall.less /\ ~keyCall.greater

\* C23, amended: two records that OrderImportedModules orders neither before
\* the other have the same module, the same access-path storage and the same
\* length, and so are the same import.
C23_UnorderedAreSameImport ==
  (keyCall.op = "compare" /\ ~keyCall.less /\ ~keyCall.greater) =>
    /\ keyCall.lhs.second = keyCall.rhs.second
    /\ keyCall.lhs.data = keyCall.rhs.data
    /\ keyCall.lhs.size = keyCall.rhs.size
    /\ keyCall.isEqual

\* A record with a one-element path was compared with itself.
C23_Witness ==
  /\ keyCall.op = "compare"
  /\ keyCall.lhs.size = 1
  /\ keyCall.rhs = keyCall.lhs
  /\ ~keyCall.less /\ ~keyCall.greater
  /\ keyCall.isEqual

\* C24: two records equal under DenseMapInfo::isEqual have the same hash, and
\* the empty and the tombstone key are equal neither to each other nor to a
\* record of a real module.
C24_HashAgreesWithEquality ==
  keyCall.op = "compare" =>
    /\ keyCall.isEqual => keyCall.hashLhs = keyCall.hashRhs
    /\ (/\ keyCall.lhs.second \in {"EmptyKey", "TombstoneKey"}
        /\ keyCall.rhs.second # keyCall.lhs.second) =>
         ~keyCall.isEqual

\* The same import written at two locations, in two buffers: equal, and
\* hashed alike.
C24_Witness ==
  /\ keyCall.op = "compare"
  /\ keyCall.lhs = [data |-> 1, size |-> 1, second |-> "X"]
  /\ keyCall.rhs = [data |-> 2, size |-> 1, second |-> "X"]
  /\ keyCall.isEqual
  /\ keyCall.hashLhs = keyCall.hashRhs


\* --------------------------------------------- void-callback traversal properties

\* C26: a traversal entered through a void-callback overload is never ended
\* by its callback: every call of the callback is followed by the next, the
\* traversal returns true, and it has then passed to the callback exactly the
\* imports visible from the start, those a bool callback that always returns
\* true is passed.
C26_VoidCallbackNeverEndsEarly ==
  /\ CallbackNeverStopped
  /\ travPC = "done" => travResult = TRUE /\ VisitedKeys = ReachKeys

\* A traversal from module W through a void callback ran to completion after
\* visiting W and two more imports.
C26_Witness ==
  /\ travPC = "done"
  /\ travStart.kind = "module"
  /\ Len(calls) = 3
  /\ travResult = TRUE


\* ------------------------------------------------ file unit variant properties

\* C27: of SourceFile::classof, BuiltinUnit::classof and LoadedFile::classof
\* exactly one holds for each FileUnitKind, and for a constructed unit it is
\* the one of its class; a LoadedFile is constructed with the kinds
\* SerializedAST, ClangModule and DWARFModule and with no other; and the Kind
\* and the parent module of a constructed unit never change.
C27_OneVariantForLife ==
  /\ [](\A kind \in FileUnitKinds :
          Cardinality({class \in {"SourceFile", "BuiltinUnit", "LoadedFile"} :
                         classof(class, kind)}) = 1)
  /\ [](\A u \in DOMAIN constructed :
          constructed[u].class # "none" => classof(constructed[u].class, constructed[u].Kind))
  /\ []((ctorCall.op = "construct" /\ ctorCall.class = "LoadedFile") =>
          (ctorCall.trap <=> ctorCall.Kind \in {"Source", "Builtin"}))
  /\ [][\A u \in DOMAIN constructed :
          constructed[u].class # "none" =>
            /\ constructed'[u].class = constructed[u].class
            /\ constructed'[u].Kind = constructed[u].Kind
            /\ constructed'[u].parent = constructed[u].parent]_vars

\* A LoadedFile for a Clang module imported from DWARF was constructed for
\* module N, added to Files and removed again.
C27_Witness ==
  /\ constructed["u1"] = [class |-> "LoadedFile", Kind |-> "DWARFModule",
                          parent |-> "N", inFiles |-> FALSE]
  /\ ctorCall.op = "addOrRemoveFile"
  /\ constructed["u2"].class = "SourceFile"

=============================================================================
